---- MODULE Spec2Model ----
(***************************************************************************)
(* Model of the redirect service of the QR code generator: the credential  *)
(* and session manager with its login rate limiter (app/api/auth/route.ts),*)
(* the link registry (app/api/links/route.ts) and the redirect resolver    *)
(* (app/r/[slug]/route.ts), over the two key-value backends.               *)
(*                                                                         *)
(* Time is in milliseconds, as Date.now() gives it.  A value that the code *)
(* may leave undefined is modelled by the falsy value of its type ("" for  *)
(* a string, 0 for a timestamp, << >> for a list): every test the handlers *)
(* make on such a value is a truthiness test, which cannot tell them apart.*)
(***************************************************************************)
EXTENDS Integers, Sequences, FiniteSets, TLC

VARIABLES env, store, now, advances, last, inflight, history

vars == <<env, store, now, advances, last, inflight, history>>

-----------------------------------------------------------------------------
(* Bounds of the model *)

\* number of times the clock may jump between two requests
MaxAdvances == 2
\* number of times it may do so while links are managed
MaxTicks == 1
\* number of session tokens that can be issued
MaxSessions == 2
\* clicks counted per link
MaxClicks == 2
\* milliseconds the clock may move between two reads of one handler
MaxDrift == 1
\* the time up to which the clock moves inside handlers
MaxDriftedNow == 3
\* requests that may be in flight at once
MaxInflight == 2
\* logins that arrive while requests interleave
MaxLogins == 6
\* creates that arrive while requests interleave
MaxCreates == 2
\* setups that arrive while requests interleave
MaxSetups == 2
\* updates, deletes and redirects that arrive while requests interleave
MaxRequests == 3

-----------------------------------------------------------------------------
(* Program constants *)

MAX_LOGIN_ATTEMPTS == 5
LOCKOUT_DURATION == 15 * 60 * 1000
ATTEMPT_WINDOW == 15 * 60 * 1000
SESSION_EXPIRY == 7 * 24 * 60 * 60 * 1000
\* bcrypt.hash(password, 10)
BCRYPT_ROUNDS == 10
\* password.length < 6
MIN_PASSWORD_LENGTH == 6

-----------------------------------------------------------------------------
(* Inputs *)

\* "" is a missing password, "abc" is too short for setup
Passwords == {"", "abc", "secret1", "hunter22"}

\* salts bcrypt may draw
Salts == {"s1"}

\* request headers that carry the client address
HeaderSets ==
  { [xff |-> << >>, realIp |-> ""],
    [xff |-> << >>, realIp |-> "10.0.0.1"],
    [xff |-> <<" 10.0.0.1", "10.0.0.2">>, realIp |-> "10.0.0.2"] }

\* the session cookie of a request: 0 is no cookie
Cookies == 0..MaxSessions

-----------------------------------------------------------------------------
(* The key-value store: one record of key namespaces per backend.  Each    *)
(* namespace is a function from the part of the key after the prefix to    *)
(* the stored value; a key is present iff it is in the function's domain.  *)

Backends == {"kv", "local"}

EmptyStore == [auth |-> << >>, session |-> << >>, ratelimit |-> << >>, link |-> << >>]

\* storage.get: null is modelled by Has() being false
Has(s, ns, k) == k \in DOMAIN s[ns]

Get(s, ns, k) == s[ns][k]

\* storage.set
Set(s, ns, k, v) == [s EXCEPT ![ns] = (k :> v) @@ s[ns]]

\* storage.del
Del(s, ns, k) == [s EXCEPT ![ns] = [x \in (DOMAIN s[ns]) \ {k} |-> s[ns][x]]]

\* const isProduction = !!(process.env.KV_REST_API_URL || process.env.UPSTASH_REDIS_REST_URL)
isProduction(e) == e.KV_REST_API_URL \/ e.UPSTASH_REDIS_REST_URL

\* the backend the storage abstraction of /api/auth and /api/links selects
Backend(e) == IF isProduction(e) THEN "kv" ELSE "local"

-----------------------------------------------------------------------------
(* bcrypt, by its contract: a salted digest, compared by recomputation *)

bcryptHash(p, salt) == [rounds |-> BCRYPT_ROUNDS, salt |-> salt, digest |-> <<salt, p>>]

bcryptCompare(p, h) == h.digest = <<h.salt, p>>

-----------------------------------------------------------------------------
(* Client identity *)

\* String.prototype.trim on the addresses the model sends
Trim(str) == IF str = " 10.0.0.1" THEN "10.0.0.1" ELSE str

getClientIP(h) ==
  IF h.xff # << >> THEN Trim(h.xff[1])
  ELSE IF h.realIp # "" THEN h.realIp
  ELSE "unknown"

-----------------------------------------------------------------------------
(* Login rate limiter *)

\* checkRateLimit without its first test, the one of lockedUntil
checkRateLimit_NoLockTest(s, ip, t) ==
  LET has == Has(s, "ratelimit", ip)
      data == Get(s, "ratelimit", ip)
  IN  IF ~has \/ (t - data.firstAttempt) > ATTEMPT_WINDOW
        THEN [allowed |-> TRUE, lockedUntil |-> 0, s |-> s]
      ELSE IF data.attempts >= MAX_LOGIN_ATTEMPTS
        THEN [allowed |-> FALSE, lockedUntil |-> t + LOCKOUT_DURATION,
              s |-> Set(s, "ratelimit", ip,
                        [data EXCEPT !.lockedUntil = t + LOCKOUT_DURATION])]
      ELSE [allowed |-> TRUE, lockedUntil |-> 0, s |-> s]

\* checkRateLimit that also rejects while any other identity is locked
checkRateLimit_AnyIdentity(s, ip, t) ==
  LET has == Has(s, "ratelimit", ip)
      data == Get(s, "ratelimit", ip)
  IN  IF \E other \in DOMAIN s.ratelimit :
           other # ip /\ Get(s, "ratelimit", other).lockedUntil > t
        THEN [allowed |-> FALSE, lockedUntil |-> t + LOCKOUT_DURATION, s |-> s]
      ELSE IF has /\ data.lockedUntil # 0 /\ data.lockedUntil > t
        THEN [allowed |-> FALSE, lockedUntil |-> data.lockedUntil, s |-> s]
      ELSE IF ~has \/ (t - data.firstAttempt) > ATTEMPT_WINDOW
        THEN [allowed |-> TRUE, lockedUntil |-> 0, s |-> s]
      ELSE IF data.attempts >= MAX_LOGIN_ATTEMPTS
        THEN [allowed |-> FALSE, lockedUntil |-> t + LOCKOUT_DURATION,
              s |-> Set(s, "ratelimit", ip,
                        [data EXCEPT !.lockedUntil = t + LOCKOUT_DURATION])]
      ELSE [allowed |-> TRUE, lockedUntil |-> 0, s |-> s]

checkRateLimit(s, ip, t) ==
  LET has == Has(s, "ratelimit", ip)
      data == Get(s, "ratelimit", ip)
  IN  IF has /\ data.lockedUntil # 0 /\ data.lockedUntil > t
        THEN [allowed |-> FALSE, lockedUntil |-> data.lockedUntil, s |-> s]
      ELSE IF ~has \/ (t - data.firstAttempt) > ATTEMPT_WINDOW
        THEN [allowed |-> TRUE, lockedUntil |-> 0, s |-> s]
      ELSE IF data.attempts >= MAX_LOGIN_ATTEMPTS
        THEN [allowed |-> FALSE, lockedUntil |-> t + LOCKOUT_DURATION,
              s |-> Set(s, "ratelimit", ip,
                        [data EXCEPT !.lockedUntil = t + LOCKOUT_DURATION])]
      ELSE [allowed |-> TRUE, lockedUntil |-> 0, s |-> s]

Max(a, b) == IF a >= b THEN a ELSE b

\* recordFailedAttempt that locks one failure late
recordFailedAttempt_LocksLate(s, ip, t) ==
  LET has == Has(s, "ratelimit", ip)
      data == Get(s, "ratelimit", ip)
      newData ==
        IF ~has \/ (t - data.firstAttempt) > ATTEMPT_WINDOW
          THEN [attempts |-> 1, firstAttempt |-> t, lockedUntil |-> 0]
        ELSE IF data.attempts + 1 > MAX_LOGIN_ATTEMPTS
          THEN [data EXCEPT !.attempts = data.attempts + 1,
                            !.lockedUntil = t + LOCKOUT_DURATION]
        ELSE [data EXCEPT !.attempts = data.attempts + 1]
  IN  [remainingAttempts |-> Max(0, MAX_LOGIN_ATTEMPTS - newData.attempts),
       locked |-> newData.lockedUntil # 0,
       s |-> Set(s, "ratelimit", ip, newData)]

\* recordFailedAttempt whose window slides: every failure re-anchors it
recordFailedAttempt_Slides(s, ip, t) ==
  LET has == Has(s, "ratelimit", ip)
      data == Get(s, "ratelimit", ip)
      newData ==
        IF ~has \/ (t - data.firstAttempt) > ATTEMPT_WINDOW
          THEN [attempts |-> 1, firstAttempt |-> t, lockedUntil |-> 0]
        ELSE IF data.attempts + 1 >= MAX_LOGIN_ATTEMPTS
          THEN [data EXCEPT !.attempts = data.attempts + 1, !.firstAttempt = t,
                            !.lockedUntil = t + LOCKOUT_DURATION]
        ELSE [data EXCEPT !.attempts = data.attempts + 1, !.firstAttempt = t]
  IN  [remainingAttempts |-> Max(0, MAX_LOGIN_ATTEMPTS - newData.attempts),
       locked |-> newData.lockedUntil # 0,
       s |-> Set(s, "ratelimit", ip, newData)]

recordFailedAttempt(s, ip, t) ==
  LET has == Has(s, "ratelimit", ip)
      data == Get(s, "ratelimit", ip)
      newData ==
        IF ~has \/ (t - data.firstAttempt) > ATTEMPT_WINDOW
          THEN [attempts |-> 1, firstAttempt |-> t, lockedUntil |-> 0]
        ELSE IF data.attempts + 1 >= MAX_LOGIN_ATTEMPTS
          THEN [data EXCEPT !.attempts = data.attempts + 1,
                            !.lockedUntil = t + LOCKOUT_DURATION]
        ELSE [data EXCEPT !.attempts = data.attempts + 1]
  IN  [remainingAttempts |-> Max(0, MAX_LOGIN_ATTEMPTS - newData.attempts),
       locked |-> newData.lockedUntil # 0,
       s |-> Set(s, "ratelimit", ip, newData)]

clearRateLimit(s, ip) == Del(s, "ratelimit", ip)

-----------------------------------------------------------------------------
(* Responses.  A handler is an operator from the selected backend's store  *)
(* and the request to the store it leaves and the response it sends.       *)

Home == [scheme |-> "", host |-> "", path |-> "/"]
NoLoc == [scheme |-> "", host |-> "", path |-> ""]

\* the empty string as a destination
NoDest == [scheme |-> "", host |-> "", path |-> ""]

\* the inputs of a request; a handler reads the ones it destructures
NoReq == [ip |-> "", pw |-> "", cookie |-> 0, slug |-> << >>, dest |-> NoDest,
          status |-> "", qrCode |-> ""]

\* a response with status http; err names the error of the JSON body ("" on success)
Resp(s, http, err) ==
  [s |-> s, http |-> http, err |-> err, issued |-> 0, remaining |-> -1,
   lockedUntil |-> 0, body |-> << >>, loc |-> NoLoc]

-----------------------------------------------------------------------------
(* Credential and session manager: /api/auth *)

\* generateSessionToken: 32 bytes of crypto.getRandomValues; a token that is
\* not yet in the store (tokens are opaque, so the least unused one stands for
\* any), 0 when the model has issued all it may
generateSessionToken(s) ==
  LET free == (1..MaxSessions) \ DOMAIN s.session
  IN  IF free = {} THEN 0 ELSE CHOOSE t \in free : \A u \in free : t <= u

\* the session written by setup and login: createdAt and expiresAt come from
\* two reads of Date.now()
sessionData(t1, t2) == [createdAt |-> t1, expiresAt |-> t2 + SESSION_EXPIRY]

\* GET action=status: session && session.expiresAt > Date.now()
statusIsAuthenticated(s, cookie, t) ==
  /\ cookie # 0
  /\ Has(s, "session", cookie)
  /\ Get(s, "session", cookie).expiresAt > t

GETstatus(s, cookie, t) ==
  [Resp(s, 200, "") EXCEPT
     !.body = <<[isSetup |-> Has(s, "auth", "password"),
                 isAuthenticated |-> statusIsAuthenticated(s, cookie, t)]>>]

\* GET action=verify: !session || session.expiresAt < Date.now() answers false
verifyAuthenticated(s, cookie, t) ==
  /\ cookie # 0
  /\ ~(~Has(s, "session", cookie) \/ Get(s, "session", cookie).expiresAt < t)

GETverify(s, cookie, t) ==
  [Resp(s, 200, "") EXCEPT !.body = <<[authenticated |-> verifyAuthenticated(s, cookie, t)]>>]

\* POST action=setup without the test for an existing password
POSTsetup_NoExistingTest(s, pw, salt, ts) ==
  IF pw = "" \/ Len(pw) < MIN_PASSWORD_LENGTH
    THEN Resp(s, 400, "weak_password")
  ELSE LET s1 == Set(s, "auth", "password",
                     [passwordHash |-> bcryptHash(pw, salt), createdAt |-> ts[1]])
           tok == generateSessionToken(s1)
           s2 == Set(s1, "session", tok, sessionData(ts[2], ts[3]))
       IN  [Resp(s2, 200, "") EXCEPT !.issued = tok]

\* POST action=setup that also refuses a password of exactly the minimum length
POSTsetup_RefusesMinimum(s, pw, salt, ts) ==
  IF Has(s, "auth", "password")
    THEN Resp(s, 400, "already_setup")
  ELSE IF pw = "" \/ Len(pw) <= MIN_PASSWORD_LENGTH
    THEN Resp(s, 400, "weak_password")
  ELSE LET s1 == Set(s, "auth", "password",
                     [passwordHash |-> bcryptHash(pw, salt), createdAt |-> ts[1]])
           tok == generateSessionToken(s1)
           s2 == Set(s1, "session", tok, sessionData(ts[2], ts[3]))
       IN  [Resp(s2, 200, "") EXCEPT !.issued = tok]

\* POST action=setup; ts are the handler's reads of Date.now()
POSTsetup(s, pw, salt, ts) ==
  IF Has(s, "auth", "password")
    THEN Resp(s, 400, "already_setup")
  ELSE IF pw = "" \/ Len(pw) < MIN_PASSWORD_LENGTH
    THEN Resp(s, 400, "weak_password")
  ELSE LET s1 == Set(s, "auth", "password",
                     [passwordHash |-> bcryptHash(pw, salt), createdAt |-> ts[1]])
           tok == generateSessionToken(s1)
           s2 == Set(s1, "session", tok, sessionData(ts[2], ts[3]))
       IN  [Resp(s2, 200, "") EXCEPT !.issued = tok]

\* POST action=login that keeps the rate-limit record when it succeeds
POSTlogin_NoClear(s, h, pw, ts) ==
  LET clientIP == getClientIP(h)
      rateLimit == checkRateLimit(s, clientIP, ts[1])
  IN  IF ~rateLimit.allowed
        THEN [Resp(rateLimit.s, 429, "rate_limited") EXCEPT
                !.lockedUntil = rateLimit.lockedUntil]
      ELSE IF ~Has(s, "auth", "password")
        THEN Resp(s, 400, "not_setup")
      ELSE IF pw = ""
        THEN Resp(s, 400, "password_required")
      ELSE IF ~bcryptCompare(pw, Get(s, "auth", "password").passwordHash)
        THEN LET attemptResult == recordFailedAttempt(s, clientIP, ts[2])
             IN  IF attemptResult.locked
                   THEN Resp(attemptResult.s, 429, "locked")
                   ELSE [Resp(attemptResult.s, 401, "invalid_password") EXCEPT
                           !.remaining = attemptResult.remainingAttempts]
      ELSE LET tok == generateSessionToken(s)
               s2 == Set(s, "session", tok, sessionData(ts[2], ts[3]))
           IN  [Resp(s2, 200, "") EXCEPT !.issued = tok]

\* POST action=login that records a missing password as a failed attempt
POSTlogin_CountsMissing(s, h, pw, ts) ==
  LET clientIP == getClientIP(h)
      rateLimit == checkRateLimit(s, clientIP, ts[1])
  IN  IF ~rateLimit.allowed
        THEN [Resp(rateLimit.s, 429, "rate_limited") EXCEPT
                !.lockedUntil = rateLimit.lockedUntil]
      ELSE IF ~Has(s, "auth", "password")
        THEN Resp(s, 400, "not_setup")
      ELSE IF pw = ""
        THEN Resp(recordFailedAttempt(s, clientIP, ts[2]).s, 400, "password_required")
      ELSE IF ~bcryptCompare(pw, Get(s, "auth", "password").passwordHash)
        THEN LET attemptResult == recordFailedAttempt(s, clientIP, ts[2])
             IN  IF attemptResult.locked
                   THEN Resp(attemptResult.s, 429, "locked")
                   ELSE [Resp(attemptResult.s, 401, "invalid_password") EXCEPT
                           !.remaining = attemptResult.remainingAttempts]
      ELSE LET s1 == clearRateLimit(s, clientIP)
               tok == generateSessionToken(s1)
               s2 == Set(s1, "session", tok, sessionData(ts[2], ts[3]))
           IN  [Resp(s2, 200, "") EXCEPT !.issued = tok]

\* POST action=login
POSTlogin(s, h, pw, ts) ==
  LET clientIP == getClientIP(h)
      rateLimit == checkRateLimit(s, clientIP, ts[1])
  IN  IF ~rateLimit.allowed
        THEN [Resp(rateLimit.s, 429, "rate_limited") EXCEPT
                !.lockedUntil = rateLimit.lockedUntil]
      ELSE IF ~Has(s, "auth", "password")
        THEN Resp(s, 400, "not_setup")
      ELSE IF pw = ""
        THEN Resp(s, 400, "password_required")
      ELSE IF ~bcryptCompare(pw, Get(s, "auth", "password").passwordHash)
        THEN LET attemptResult == recordFailedAttempt(s, clientIP, ts[2])
             IN  IF attemptResult.locked
                   THEN Resp(attemptResult.s, 429, "locked")
                   ELSE [Resp(attemptResult.s, 401, "invalid_password") EXCEPT
                           !.remaining = attemptResult.remainingAttempts]
      ELSE LET s1 == clearRateLimit(s, clientIP)
               tok == generateSessionToken(s1)
               s2 == Set(s1, "session", tok, sessionData(ts[2], ts[3]))
           IN  [Resp(s2, 200, "") EXCEPT !.issued = tok]

\* POST action=logout that deletes the session the cookie names
POSTlogout_DeletesSession(s, cookie) ==
  IF cookie # 0 /\ Has(s, "session", cookie)
    THEN Resp(Del(s, "session", cookie), 200, "")
    ELSE Resp(s, 200, "")

\* POST action=logout: the cookie is read and cleared in the response, the
\* store is not touched (the storage.del of the session is commented out)
POSTlogout(s, cookie) == Resp(s, 200, "")

-----------------------------------------------------------------------------
(* Link registry: /api/links *)

\* the characters of the class [a-zA-Z0-9_-]
SlugChars ==
  { "a", "b", "c", "d", "e", "f", "g", "h", "i", "j", "k", "l", "m",
    "n", "o", "p", "q", "r", "s", "t", "u", "v", "w", "x", "y", "z",
    "A", "B", "C", "D", "E", "F", "G", "H", "I", "J", "K", "L", "M",
    "N", "O", "P", "Q", "R", "S", "T", "U", "V", "W", "X", "Y", "Z",
    "0", "1", "2", "3", "4", "5", "6", "7", "8", "9", "_", "-" }

\* /^[a-zA-Z0-9_-]+$/.test(slug), a slug being the sequence of its characters
slugMatches(slug) == Len(slug) >= 1 /\ \A i \in 1..Len(slug) : slug[i] \in SlugChars

\* schemes for which the URL parser demands a host
SpecialSchemes == {"http", "https", "ftp", "ws", "wss"}

\* new URL(destination) does not throw: the string has a scheme, and a host
\* where the scheme needs one.  A destination is held as the parts the
\* parser would split it into; NoDest is the empty string.
urlParses(d) == d.scheme # "" /\ (d.scheme \in SpecialSchemes => d.host # "")

\* a value written by set is one JSON value; kind "hash" is a Redis hash,
\* which only hincrby creates
linkData(destination, createdAt, updatedAt, clicks, status, qrCode) ==
  [kind |-> "json", destination |-> destination, createdAt |-> createdAt,
   updatedAt |-> updatedAt, clicks |-> clicks, status |-> status, qrCode |-> qrCode]

\* kv.get of a key that holds a hash fails with WRONGTYPE
getThrows(s, ns, k) == Has(s, ns, k) /\ Get(s, ns, k).kind = "hash"

\* an isAuthorized that trusts any cookie and never reads the session
isAuthorized_AnyCookie(s, cookie, t) == cookie # 0

\* isAuthorized: !session || session.expiresAt < Date.now() answers false
isAuthorized(s, cookie, t) ==
  /\ cookie # 0
  /\ ~(~Has(s, "session", cookie) \/ Get(s, "session", cookie).expiresAt < t)

\* links.sort((a, b) => b.updatedAt - a.updatedAt): a stable sort, here by
\* insertion after the entries that are not older
RECURSIVE sortByUpdatedAt(_)
sortByUpdatedAt(links) ==
  IF links = << >> THEN << >>
  ELSE LET n == Len(links)
           x == links[n]
           sorted == sortByUpdatedAt(SubSeq(links, 1, n - 1))
           k == Cardinality({i \in 1..Len(sorted) : sorted[i].data.updatedAt >= x.data.updatedAt})
       IN  SubSeq(sorted, 1, k) \o <<x>> \o SubSeq(sorted, k + 1, Len(sorted))

\* the orders in which keys("link:*") may return the keys
keyOrders(s) ==
  { o \in [1..Cardinality(DOMAIN s.link) -> DOMAIN s.link] :
      \A i, j \in DOMAIN o : i # j => o[i] # o[j] }

\* GET /api/links that lists the links in the order of the keys
GETlinks_Unsorted(s, req, keys, t) ==
  IF ~isAuthorized(s, req.cookie, t)
    THEN Resp(s, 401, "unauthorized")
  ELSE IF req.slug # << >>
    THEN IF getThrows(s, "link", req.slug) THEN Resp(s, 500, "failed")
         ELSE IF ~Has(s, "link", req.slug) THEN Resp(s, 404, "not_found")
         ELSE [Resp(s, 200, "") EXCEPT
                 !.body = <<[slug |-> req.slug, data |-> Get(s, "link", req.slug)]>>]
  ELSE IF \E k \in DOMAIN s.link : getThrows(s, "link", k)
    THEN Resp(s, 500, "failed")
  ELSE [Resp(s, 200, "") EXCEPT
          !.body = [i \in DOMAIN keys |->
                      [slug |-> keys[i], data |-> Get(s, "link", keys[i])]]]

\* GET /api/links that stamps the record it reads by slug
GETlinks_Touches(s, req, keys, t) ==
  IF ~isAuthorized(s, req.cookie, t)
    THEN Resp(s, 401, "unauthorized")
  ELSE IF req.slug # << >>
    THEN IF getThrows(s, "link", req.slug) THEN Resp(s, 500, "failed")
         ELSE IF ~Has(s, "link", req.slug) THEN Resp(s, 404, "not_found")
         ELSE [Resp(Set(s, "link", req.slug,
                        [Get(s, "link", req.slug) EXCEPT !.updatedAt = t]), 200, "")
                 EXCEPT !.body = <<[slug |-> req.slug, data |-> Get(s, "link", req.slug)]>>]
  ELSE IF \E k \in DOMAIN s.link : getThrows(s, "link", k)
    THEN Resp(s, 500, "failed")
  ELSE [Resp(s, 200, "") EXCEPT
          !.body = sortByUpdatedAt([i \in DOMAIN keys |->
                                      [slug |-> keys[i], data |-> Get(s, "link", keys[i])]])]

\* GET /api/links; keys is the answer of storage.keys
GETlinks(s, req, keys, t) ==
  IF ~isAuthorized(s, req.cookie, t)
    THEN Resp(s, 401, "unauthorized")
  ELSE IF req.slug # << >>
    THEN IF getThrows(s, "link", req.slug) THEN Resp(s, 500, "failed")
         ELSE IF ~Has(s, "link", req.slug) THEN Resp(s, 404, "not_found")
         ELSE [Resp(s, 200, "") EXCEPT
                 !.body = <<[slug |-> req.slug, data |-> Get(s, "link", req.slug)]>>]
  ELSE IF \E k \in DOMAIN s.link : getThrows(s, "link", k)
    THEN Resp(s, 500, "failed")
  ELSE [Resp(s, 200, "") EXCEPT
          !.body = sortByUpdatedAt([i \in DOMAIN keys |->
                                      [slug |-> keys[i], data |-> Get(s, "link", keys[i])]])]

\* POST /api/links that stores the status as the request gives it
POSTlinks_KeepsStatus(s, req, t1, t2) ==
  IF ~isAuthorized(s, req.cookie, t1)
    THEN Resp(s, 401, "unauthorized")
  ELSE IF req.slug = << >> \/ req.dest = NoDest
    THEN Resp(s, 400, "required")
  ELSE IF ~slugMatches(req.slug)
    THEN Resp(s, 400, "invalid_slug")
  ELSE IF getThrows(s, "link", req.slug)
    THEN Resp(s, 500, "failed")
  ELSE IF Has(s, "link", req.slug)
    THEN Resp(s, 409, "conflict")
  ELSE IF ~urlParses(req.dest)
    THEN Resp(s, 400, "invalid_destination")
  ELSE LET data == linkData(req.dest, t2, t2, 0,
                            IF req.status = "" THEN "active" ELSE req.status,
                            req.qrCode)
       IN  [Resp(Set(s, "link", req.slug, data), 201, "") EXCEPT
              !.body = <<[slug |-> req.slug, data |-> data]>>]

\* POST /api/links without the test of the slug's characters
POSTlinks_NoSlugTest(s, req, t1, t2) ==
  IF ~isAuthorized(s, req.cookie, t1)
    THEN Resp(s, 401, "unauthorized")
  ELSE IF req.slug = << >> \/ req.dest = NoDest
    THEN Resp(s, 400, "required")
  ELSE IF getThrows(s, "link", req.slug)
    THEN Resp(s, 500, "failed")
  ELSE IF Has(s, "link", req.slug)
    THEN Resp(s, 409, "conflict")
  ELSE IF ~urlParses(req.dest)
    THEN Resp(s, 400, "invalid_destination")
  ELSE LET data == linkData(req.dest, t2, t2, 0,
                            IF req.status = "draft" THEN "draft" ELSE "active",
                            req.qrCode)
       IN  [Resp(Set(s, "link", req.slug, data), 201, "") EXCEPT
              !.body = <<[slug |-> req.slug, data |-> data]>>]

\* POST /api/links without the test for an existing slug
POSTlinks_NoExistingTest(s, req, t1, t2) ==
  IF ~isAuthorized(s, req.cookie, t1)
    THEN Resp(s, 401, "unauthorized")
  ELSE IF req.slug = << >> \/ req.dest = NoDest
    THEN Resp(s, 400, "required")
  ELSE IF ~slugMatches(req.slug)
    THEN Resp(s, 400, "invalid_slug")
  ELSE IF ~urlParses(req.dest)
    THEN Resp(s, 400, "invalid_destination")
  ELSE LET data == linkData(req.dest, t2, t2, 0,
                            IF req.status = "draft" THEN "draft" ELSE "active",
                            req.qrCode)
       IN  [Resp(Set(s, "link", req.slug, data), 201, "") EXCEPT
              !.body = <<[slug |-> req.slug, data |-> data]>>]

\* POST /api/links; t1 is the clock read of isAuthorized, t2 that of now
POSTlinks(s, req, t1, t2) ==
  IF ~isAuthorized(s, req.cookie, t1)
    THEN Resp(s, 401, "unauthorized")
  ELSE IF req.slug = << >> \/ req.dest = NoDest
    THEN Resp(s, 400, "required")
  ELSE IF ~slugMatches(req.slug)
    THEN Resp(s, 400, "invalid_slug")
  ELSE IF getThrows(s, "link", req.slug)
    THEN Resp(s, 500, "failed")
  ELSE IF Has(s, "link", req.slug)
    THEN Resp(s, 409, "conflict")
  ELSE IF ~urlParses(req.dest)
    THEN Resp(s, 400, "invalid_destination")
  ELSE LET data == linkData(req.dest, t2, t2, 0,
                            IF req.status = "draft" THEN "draft" ELSE "active",
                            req.qrCode)
       IN  [Resp(Set(s, "link", req.slug, data), 201, "") EXCEPT
              !.body = <<[slug |-> req.slug, data |-> data]>>]

\* PUT /api/links that creates the record when the slug has none
PUTlinks_Upserts(s, req, t1, t2) ==
  IF ~isAuthorized(s, req.cookie, t1)
    THEN Resp(s, 401, "unauthorized")
  ELSE IF req.slug = << >>
    THEN Resp(s, 400, "required")
  ELSE IF getThrows(s, "link", req.slug)
    THEN Resp(s, 500, "failed")
  ELSE IF req.dest # NoDest /\ ~urlParses(req.dest)
    THEN Resp(s, 400, "invalid_destination")
  ELSE LET existing == IF Has(s, "link", req.slug)
                         THEN Get(s, "link", req.slug)
                         ELSE linkData(NoDest, t2, t2, 0, "active", "")
           updatedData ==
             [existing EXCEPT
                !.destination = IF req.dest # NoDest THEN req.dest ELSE @,
                !.status = IF req.status # "" THEN req.status ELSE @,
                !.qrCode = IF req.qrCode # "" THEN req.qrCode ELSE @,
                !.updatedAt = t2]
       IN  [Resp(Set(s, "link", req.slug, updatedData), 200, "") EXCEPT
              !.body = <<[slug |-> req.slug, data |-> updatedData]>>]

\* PUT /api/links that writes the body's fields as they come, provided or not
PUTlinks_NoMerge(s, req, t1, t2) ==
  IF ~isAuthorized(s, req.cookie, t1)
    THEN Resp(s, 401, "unauthorized")
  ELSE IF req.slug = << >>
    THEN Resp(s, 400, "required")
  ELSE IF getThrows(s, "link", req.slug)
    THEN Resp(s, 500, "failed")
  ELSE IF ~Has(s, "link", req.slug)
    THEN Resp(s, 404, "not_found")
  ELSE IF req.dest # NoDest /\ ~urlParses(req.dest)
    THEN Resp(s, 400, "invalid_destination")
  ELSE LET existing == Get(s, "link", req.slug)
           updatedData ==
             [existing EXCEPT
                !.destination = IF req.dest # NoDest THEN req.dest ELSE @,
                !.status = req.status,
                !.qrCode = req.qrCode,
                !.updatedAt = t2]
       IN  [Resp(Set(s, "link", req.slug, updatedData), 200, "") EXCEPT
              !.body = <<[slug |-> req.slug, data |-> updatedData]>>]

\* PUT /api/links without the validation of the destination
PUTlinks_NoUrlTest(s, req, t1, t2) ==
  IF ~isAuthorized(s, req.cookie, t1)
    THEN Resp(s, 401, "unauthorized")
  ELSE IF req.slug = << >>
    THEN Resp(s, 400, "required")
  ELSE IF getThrows(s, "link", req.slug)
    THEN Resp(s, 500, "failed")
  ELSE IF ~Has(s, "link", req.slug)
    THEN Resp(s, 404, "not_found")
  ELSE LET existing == Get(s, "link", req.slug)
           updatedData ==
             [existing EXCEPT
                !.destination = IF req.dest # NoDest THEN req.dest ELSE @,
                !.status = IF req.status # "" THEN req.status ELSE @,
                !.qrCode = IF req.qrCode # "" THEN req.qrCode ELSE @,
                !.updatedAt = t2]
       IN  [Resp(Set(s, "link", req.slug, updatedData), 200, "") EXCEPT
              !.body = <<[slug |-> req.slug, data |-> updatedData]>>]

\* PUT /api/links; t1 is the clock read of isAuthorized, t2 that of updatedAt
PUTlinks(s, req, t1, t2) ==
  IF ~isAuthorized(s, req.cookie, t1)
    THEN Resp(s, 401, "unauthorized")
  ELSE IF req.slug = << >>
    THEN Resp(s, 400, "required")
  ELSE IF getThrows(s, "link", req.slug)
    THEN Resp(s, 500, "failed")
  ELSE IF ~Has(s, "link", req.slug)
    THEN Resp(s, 404, "not_found")
  ELSE IF req.dest # NoDest /\ ~urlParses(req.dest)
    THEN Resp(s, 400, "invalid_destination")
  ELSE LET existing == Get(s, "link", req.slug)
           updatedData ==
             [existing EXCEPT
                !.destination = IF req.dest # NoDest THEN req.dest ELSE @,
                !.status = IF req.status # "" THEN req.status ELSE @,
                !.qrCode = IF req.qrCode # "" THEN req.qrCode ELSE @,
                !.updatedAt = t2]
       IN  [Resp(Set(s, "link", req.slug, updatedData), 200, "") EXCEPT
              !.body = <<[slug |-> req.slug, data |-> updatedData]>>]

\* DELETE /api/links that answers success and keeps the record
DELETElinks_KeepsRecord(s, req, t) ==
  IF ~isAuthorized(s, req.cookie, t)
    THEN Resp(s, 401, "unauthorized")
  ELSE IF req.slug = << >>
    THEN Resp(s, 400, "required")
  ELSE IF getThrows(s, "link", req.slug)
    THEN Resp(s, 500, "failed")
  ELSE IF ~Has(s, "link", req.slug)
    THEN Resp(s, 404, "not_found")
  ELSE Resp(s, 200, "")

\* DELETE /api/links
DELETElinks(s, req, t) ==
  IF ~isAuthorized(s, req.cookie, t)
    THEN Resp(s, 401, "unauthorized")
  ELSE IF req.slug = << >>
    THEN Resp(s, 400, "required")
  ELSE IF getThrows(s, "link", req.slug)
    THEN Resp(s, 500, "failed")
  ELSE IF ~Has(s, "link", req.slug)
    THEN Resp(s, 404, "not_found")
  ELSE Resp(Del(s, "link", req.slug), 200, "")

-----------------------------------------------------------------------------
(* Redirect resolver: /r/[slug] *)

\* const isProduction = process.env.KV_REST_API_URL !== undefined
resolverIsProduction(e) == e.KV_REST_API_URL

\* the backend getLink and incrementClicks select
ResolverBackend(e) == IF resolverIsProduction(e) THEN "kv" ELSE "local"

\* HINCRBY key "clicks" 1 on the remote store: a missing key becomes a hash
\* with the field, a hash has its field incremented, and a key that holds a
\* string (what set wrote) makes the command fail with WRONGTYPE, which
\* .catch(() => {}) swallows
hincrby(s, slug) ==
  IF ~Has(s, "link", slug)
    THEN Set(s, "link", slug, [linkData(NoDest, 0, 0, 1, "", "") EXCEPT !.kind = "hash"])
  ELSE IF Get(s, "link", slug).kind = "hash"
    THEN Set(s, "link", slug, [Get(s, "link", slug) EXCEPT !.clicks = @ + 1])
  ELSE s

\* incrementClicks on the store the resolver selected
incrementClicks(s, prod, slug) ==
  IF prod
    THEN hincrby(s, slug)
  ELSE IF Has(s, "link", slug)
    THEN Set(s, "link", slug, [Get(s, "link", slug) EXCEPT !.clicks = @ + 1])
  ELSE s

\* GET /r/[slug] on the store s the resolver selected
GETresolve(s, prod, slug) ==
  IF getThrows(s, "link", slug)
    THEN [Resp(s, 307, "") EXCEPT !.loc = Home]
  ELSE IF ~Has(s, "link", slug)
    THEN [Resp(s, 307, "") EXCEPT !.loc = Home]
  ELSE [Resp(incrementClicks(s, prod, slug), 307, "") EXCEPT
          !.loc = Get(s, "link", slug).destination]

-----------------------------------------------------------------------------
(* Requests as actions *)

\* the request that was handled last and its response; of a request to
\* /api/links only the slug is kept, and of a login also the failures that
\* the rate limiter had on record for the identity when the request came
Last(op, r, req) ==
  [op |-> op, http |-> r.http, err |-> r.err, issued |-> r.issued,
   remaining |-> r.remaining, lockedUntil |-> r.lockedUntil, body |-> r.body,
   loc |-> r.loc, req |-> req,
   failures |-> IF op = "login" /\ Has(store[Backend(env)], "ratelimit", req.ip)
                  THEN Get(store[Backend(env)], "ratelimit", req.ip).attempts
                  ELSE 0]

\* the requests that can be in flight at once
Slots == 1..MaxInflight

\* a request in flight: pc is the await it stands at (idle: none in
\* flight), req its inputs, t its last read of Date.now(), seen what its
\* last storage.get returned (<< >> for null) or the value its next
\* storage.set writes
Idle == [pc |-> "idle", req |-> NoReq, t |-> 0, seen |-> << >>]

\* what the interleaved requests have done: logins and creates that
\* arrived, wrong passwords that bcrypt.compare was given since the
\* rate-limit record was last cleared, the records that creates answered
\* with 201 wrote, setups that arrived and the AuthData they wrote,
\* updates, deletes and redirects that arrived, and the slugs that a delete
\* removed and no create has stored since
NoHistory ==
  [logins |-> 0, creates |-> 0, compared |-> 0, created |-> << >>,
   setups |-> 0, hashed |-> << >>, requests |-> 0, removed |-> {}]

\* the values the reads of Date.now() of one handler return: the clock does
\* not move while a request is handled, it moves between requests (Advance)
ClockReads == { [i \in 1..3 |-> now] }

\* the handler ran on backend b with the clock reads ts and answered r
Handled(b, r, ts) ==
  /\ store' = [store EXCEPT ![b] = r.s]
  /\ now' = ts[3]
  /\ UNCHANGED <<env, advances, inflight, history>>


AuthStatus ==
  \E cookie \in Cookies, ts \in ClockReads :
    LET b == Backend(env)
        r == GETstatus(store[b], cookie, ts[1])
    IN  /\ Handled(b, r, ts)
        /\ last' = Last("status", r, [NoReq EXCEPT !.cookie = cookie])

AuthVerify ==
  \E cookie \in Cookies, ts \in ClockReads :
    LET b == Backend(env)
        r == GETverify(store[b], cookie, ts[1])
    IN  /\ Handled(b, r, ts)
        /\ last' = Last("verify", r, [NoReq EXCEPT !.cookie = cookie])

\* a setup request with a password among P
SetupOf(P) ==
  \E pw \in P, salt \in Salts, ts \in ClockReads :
    LET b == Backend(env)
        r == POSTsetup(store[b], pw, salt, ts)
    IN  /\ r.http = 200 => r.issued # 0
        /\ Handled(b, r, ts)
        /\ last' = Last("setup", r, [NoReq EXCEPT !.pw = pw])

AuthSetup == SetupOf(Passwords)

\* the operator sets the password "secret1"
OperatorSetup == SetupOf({"secret1"})

\* a login request with headers among H
LoginFrom(H) ==
  \E h \in H, pw \in Passwords, ts \in ClockReads :
    LET b == Backend(env)
        r == POSTlogin(store[b], h, pw, ts)
    IN  /\ r.http = 200 => r.issued # 0
        /\ Handled(b, r, ts)
        /\ last' = Last("login", r, [NoReq EXCEPT !.ip = getClientIP(h), !.pw = pw])

\* a login from any of the client addresses
AuthLogin == LoginFrom(HeaderSets)

\* a login that carries neither address header
AuthLoginDirect == LoginFrom({h \in HeaderSets : h.xff = << >> /\ h.realIp = ""})

\* a login that came through a proxy, which names the client in a header
AuthLoginProxied == LoginFrom({h \in HeaderSets : h.xff # << >> \/ h.realIp # ""})

AuthLogout ==
  \E cookie \in Cookies, ts \in ClockReads :
    LET b == Backend(env)
        r == POSTlogout(store[b], cookie)
    IN  /\ Handled(b, r, ts)
        /\ last' = Last("logout", r, [NoReq EXCEPT !.cookie = cookie])

\* slugs of requests: none, a well-formed one, one with a space and a bang
Slugs == { << >>, <<"a", "-", "1">>, <<"a", " ", "!">> }

\* destinations of requests: none, two URLs, a string that is no URL
Destinations ==
  { NoDest,
    [scheme |-> "https", host |-> "a.com", path |-> "/"],
    [scheme |-> "https", host |-> "b.com", path |-> "/new"],
    [scheme |-> "", host |-> "", path |-> "not a url"] }

\* the optional fields of a body: none, a status the type allows, a status
\* it does not allow, a QR code
Options ==
  { [status |-> "", qrCode |-> ""],
    [status |-> "draft", qrCode |-> ""],
    [status |-> "bogus", qrCode |-> ""],
    [status |-> "", qrCode |-> "data:image/png;base64,AAAA"] }

\* every request with a body that the inputs above make up
AnyLinkRequest ==
  { [NoReq EXCEPT !.cookie = c, !.slug = sl, !.dest = d,
                  !.status = o.status, !.qrCode = o.qrCode] :
      c \in Cookies, sl \in Slugs, d \in Destinations, o \in Options }

\* the requests with a body that are sent about slugs S: with the cookie of
\* the first session, every body with a well-formed slug and one body with
\* each other slug; with no cookie or another cookie, one body with a
\* well-formed slug
LinkRequests(S) ==
  { r \in AnyLinkRequest :
      /\ r.slug \in S
      /\ \/ r.cookie = 1 /\ slugMatches(r.slug)
         \/ /\ r.dest.host = "a.com" /\ r.status = "" /\ r.qrCode = ""
            /\ (r.cookie = 1 \/ slugMatches(r.slug)) }

\* GET and DELETE read the cookie and the slug of the query string
QueryRequests(S) == { [NoReq EXCEPT !.cookie = c, !.slug = sl] : c \in Cookies, sl \in S }

\* the queries sent about slugs S: with the cookie of the first session any
\* slug, with no cookie or another cookie a well-formed slug
LinkQueries(S) == { q \in QueryRequests(S) : q.cookie = 1 \/ slugMatches(q.slug) }

GetOf(Q) ==
  \E req \in Q, ts \in ClockReads :
    LET b == Backend(env)
    IN  \E keys \in keyOrders(store[b]) :
          LET r == GETlinks(store[b], req, keys, ts[1])
          IN  /\ Handled(b, r, ts)
              /\ last' = Last("get", r, [NoReq EXCEPT !.slug = req.slug])

PostOf(R) ==
  \E req \in R, ts \in ClockReads :
    LET b == Backend(env)
        r == POSTlinks(store[b], req, ts[1], ts[2])
    IN  /\ Handled(b, r, ts)
        /\ last' = Last("create", r, [NoReq EXCEPT !.slug = req.slug])

PutOf(R) ==
  \E req \in R, ts \in ClockReads :
    LET b == Backend(env)
        r == PUTlinks(store[b], req, ts[1], ts[2])
    IN  /\ Handled(b, r, ts)
        /\ last' = Last("update", r, [NoReq EXCEPT !.slug = req.slug])

DeleteOf(Q) ==
  \E req \in Q, ts \in ClockReads :
    LET b == Backend(env)
        r == DELETElinks(store[b], req, ts[1])
    IN  /\ Handled(b, r, ts)
        /\ last' = Last("delete", r, [NoReq EXCEPT !.slug = req.slug])

\* a redirect carries no session; the click counter is capped by the model
ResolveOf(S) ==
  \E slug \in S \ {<< >>}, ts \in ClockReads :
    LET b == ResolverBackend(env)
        r == GETresolve(store[b], resolverIsProduction(env), slug)
    IN  /\ Has(store[b], "link", slug) => Get(store[b], "link", slug).clicks < MaxClicks
        /\ Handled(b, r, ts)
        /\ last' = Last("resolve", r, [NoReq EXCEPT !.slug = slug])

\* requests of a client that names one slug and one destination and holds
\* any cookie
AccessRequests ==
  { r \in LinkRequests(Slugs) : slugMatches(r.slug) /\ r.dest.host = "a.com" /\ r.status = "" /\ r.qrCode = "" }

AccessQueries == { r \in QueryRequests(Slugs) : slugMatches(r.slug) }

AccessGet == GetOf(AccessQueries)
AccessPost == PostOf(AccessRequests)
AccessPut == PutOf(AccessRequests)
AccessDelete == DeleteOf(AccessQueries)

LinksGet == GetOf(LinkQueries(Slugs))
LinksPost == PostOf(LinkRequests(Slugs))
LinksPut == PutOf(LinkRequests(Slugs))
LinksDelete == DeleteOf(LinkQueries(Slugs))
Resolve == ResolveOf(Slugs)

\* time passes between two requests: the clock jumps by one of the steps D,
\* at most max times
AdvanceBy(D, max) ==
  \E d \in D :
    /\ advances < max
    /\ now + d <= 2 * SESSION_EXPIRY
    /\ now' = now + d
    /\ advances' = advances + 1
    /\ UNCHANGED <<env, store, last, inflight, history>>

\* a millisecond or a rate-limit window (which is also a lockout) passes
AdvanceWindow == AdvanceBy({1, ATTEMPT_WINDOW}, MaxAdvances)

\* a lockout, which is as long as a rate-limit window, passes
AdvanceLockout == AdvanceBy({LOCKOUT_DURATION}, MaxTicks)

\* a millisecond passes
AdvanceTick == AdvanceBy({1}, MaxTicks)

\* a millisecond or a session lifetime passes
AdvanceSession == AdvanceBy({1, SESSION_EXPIRY}, MaxAdvances)

-----------------------------------------------------------------------------
(* Specifications *)

Envs == [KV_REST_API_URL : BOOLEAN, UPSTASH_REDIS_REST_URL : BOOLEAN]

InitIn(E) ==
  /\ env \in E
  /\ store = [b \in Backends |-> EmptyStore]
  /\ now = 0
  /\ advances = 0
  /\ last = Last("none", Resp(EmptyStore, 0, ""), NoReq)
  /\ inflight = [p \in Slots |-> Idle]
  /\ history = NoHistory

\* every configuration of the two environment variables
Init == InitIn(Envs)

\* /api/auth and /api/links read the two variables only through their
\* disjunction: one configuration for each backend they can select
InitAuth == InitIn({e \in Envs : ~e.UPSTASH_REDIS_REST_URL})

NextAuth ==
  \/ AuthSetup
  \/ AuthLoginProxied
  \/ AdvanceWindow

\* the credential manager and the login rate limiter
SpecAuth == InitAuth /\ [][NextAuth]_vars

\* the passwords of setup requests at the limit of the length test: none,
\* five characters, six, seven
SetupPasswords == {"", "12345", "123456", "secret1"}

\* a setup with a password around the minimum length
BoundarySetup == SetupOf(SetupPasswords)

\* the first run: setup with passwords around the minimum length, and the
\* session probes of the pages
NextSetup ==
  \/ BoundarySetup
  \/ AuthStatus
  \/ AuthVerify
  \/ AdvanceTick

SpecSetup == InitAuth /\ [][NextSetup]_vars

\* two well-formed slugs, for the dashboard's list
ListSlugs == { <<"a", "-", "1">>, <<"b", "_", "2">> }

\* the bodies the dashboard sends about them with the first session's
\* cookie: a destination or none, a draft status or none
ListRequests ==
  { [NoReq EXCEPT !.cookie = 1, !.slug = sl, !.dest = d, !.status = st] :
      sl \in ListSlugs,
      d \in {x \in Destinations : x.host \in {"", "a.com"} /\ x.path # "not a url"},
      st \in {"", "draft"} }

\* its queries: the list and each slug with the cookie, the list without
ListQueries ==
  { [NoReq EXCEPT !.cookie = 1, !.slug = sl] : sl \in ListSlugs \cup {<< >>} }
    \cup { NoReq }

ListGet == GetOf(ListQueries)
ListPost == PostOf(ListRequests)
ListPut == PutOf(ListRequests)
ListDelete == DeleteOf(ListQueries)

\* the dashboard: two links are created, edited, listed and deleted
NextList ==
  \/ OperatorSetup
  \/ ListGet
  \/ ListPost
  \/ ListPut
  \/ ListDelete
  \/ AdvanceTick

SpecList == InitAuth /\ [][NextList]_vars

\* the values the reads of Date.now() of one handler return when the clock
\* moves while the request is handled: each read is the one before it or up
\* to MaxDrift later
DriftingReads ==
  { ts \in [1..3 -> now..(now + 2 * MaxDrift)] :
      /\ ts[1] = now
      /\ ts[2] - ts[1] \in 0..MaxDrift
      /\ ts[3] - ts[2] \in 0..MaxDrift
      /\ (ts[3] > now => ts[3] <= MaxDriftedNow) }

\* a setup handled while the clock moves
DriftingSetup ==
  \E ts \in DriftingReads :
    LET b == Backend(env)
        r == POSTsetup(store[b], "secret1", "s1", ts)
    IN  /\ r.http = 200 => r.issued # 0
        /\ Handled(b, r, ts)
        /\ last' = Last("setup", r, [NoReq EXCEPT !.pw = "secret1"])

\* a login handled while the clock moves
DriftingLogin ==
  \E h \in {x \in HeaderSets : x.xff = << >> /\ x.realIp = ""},
     pw \in {"secret1", "hunter22"}, ts \in DriftingReads :
    LET b == Backend(env)
        r == POSTlogin(store[b], h, pw, ts)
    IN  /\ r.http = 200 => r.issued # 0
        /\ Handled(b, r, ts)
        /\ last' = Last("login", r, [NoReq EXCEPT !.ip = getClientIP(h), !.pw = pw])

\* setup and logins on a clock that moves while they are handled
NextDrift ==
  \/ DriftingSetup
  \/ DriftingLogin
  \/ AuthVerify
  \/ AdvanceTick

SpecDrift == InitAuth /\ [][NextDrift]_vars

\* one call of storage.get, set, del or keys that a handler makes: inTry
\* tells whether the call stands inside the handler's try block, s is the
\* store as the calls before it left it
Call(inTry, s) == [inTry |-> inTry, s |-> s]

\* the call throws: the catch of the try block answers 500 with a JSON
\* error; an exception outside it leaves the handler, and the framework
\* answers 500 without the handler's JSON body
Thrown(call) ==
  IF call.inTry THEN Resp(call.s, 500, "failed") ELSE Resp(call.s, 500, "uncaught")

\* the store calls of GET /api/auth (action status or verify), none inside
\* a try block: status reads auth:password and, with a cookie, the session;
\* verify reads the session of the cookie
GETauthCalls(s, action, cookie) ==
  (IF action = "status" THEN <<Call(FALSE, s)>> ELSE << >>)
    \o (IF cookie # 0 THEN <<Call(FALSE, s)>> ELSE << >>)

\* the store calls of POST action=setup, all inside the try block
POSTsetupCalls(s, pw, salt, ts) ==
  <<Call(TRUE, s)>>
    \o (IF Has(s, "auth", "password") \/ pw = "" \/ Len(pw) < MIN_PASSWORD_LENGTH
          THEN << >>
          ELSE <<Call(TRUE, s),
                 Call(TRUE, Set(s, "auth", "password",
                                [passwordHash |-> bcryptHash(pw, salt), createdAt |-> ts[1]]))>>)

\* the store calls of POST action=login, all inside the try block: the get
\* and the relocking set of checkRateLimit, the get of auth:password, then
\* the get and set of recordFailedAttempt or the del of clearRateLimit and
\* the set of the session
POSTloginCalls(s, h, pw, ts) ==
  LET clientIP == getClientIP(h)
      rateLimit == checkRateLimit(s, clientIP, ts[1])
  IN  <<Call(TRUE, s)>>
        \o (IF rateLimit.s # s THEN <<Call(TRUE, s)>> ELSE << >>)
        \o (IF ~rateLimit.allowed THEN << >>
            ELSE <<Call(TRUE, s)>>
                   \o (IF ~Has(s, "auth", "password") \/ pw = "" THEN << >>
                       ELSE IF ~bcryptCompare(pw, Get(s, "auth", "password").passwordHash)
                         THEN <<Call(TRUE, s), Call(TRUE, s)>>
                       ELSE <<Call(TRUE, s), Call(TRUE, clearRateLimit(s, clientIP))>>))

\* the store call of isAuthorized, which every handler of /api/links awaits
\* before its try block
isAuthorizedCalls(s, cookie) == IF cookie # 0 THEN <<Call(FALSE, s)>> ELSE << >>

\* the store calls of GET /api/links: the get of the slug, or keys and a
\* get for each key
GETlinksCalls(s, req, keys, t) ==
  isAuthorizedCalls(s, req.cookie)
    \o (IF ~isAuthorized(s, req.cookie, t) THEN << >>
        ELSE IF req.slug # << >> THEN <<Call(TRUE, s)>>
        ELSE <<Call(TRUE, s)>> \o [i \in DOMAIN keys |-> Call(TRUE, s)])

\* the store calls of POST /api/links: the get of the existence test and
\* the set
POSTlinksCalls(s, req, t) ==
  isAuthorizedCalls(s, req.cookie)
    \o (IF \/ ~isAuthorized(s, req.cookie, t)
           \/ req.slug = << >> \/ req.dest = NoDest
           \/ ~slugMatches(req.slug)
          THEN << >>
        ELSE <<Call(TRUE, s)>>
               \o (IF \/ getThrows(s, "link", req.slug)
                      \/ Has(s, "link", req.slug)
                      \/ ~urlParses(req.dest)
                     THEN << >> ELSE <<Call(TRUE, s)>>))

\* the store calls of PUT /api/links: the get of the record and the set
PUTlinksCalls(s, req, t) ==
  isAuthorizedCalls(s, req.cookie)
    \o (IF ~isAuthorized(s, req.cookie, t) \/ req.slug = << >>
          THEN << >>
        ELSE <<Call(TRUE, s)>>
               \o (IF \/ getThrows(s, "link", req.slug)
                      \/ ~Has(s, "link", req.slug)
                      \/ (req.dest # NoDest /\ ~urlParses(req.dest))
                     THEN << >> ELSE <<Call(TRUE, s)>>))

\* the store calls of DELETE /api/links: the get of the record and the del
DELETElinksCalls(s, req, t) ==
  isAuthorizedCalls(s, req.cookie)
    \o (IF ~isAuthorized(s, req.cookie, t) \/ req.slug = << >>
          THEN << >>
        ELSE <<Call(TRUE, s)>>
               \o (IF getThrows(s, "link", req.slug) \/ ~Has(s, "link", req.slug)
                     THEN << >> ELSE <<Call(TRUE, s)>>))

\* the names under which last records a request one of whose store calls threw
FaultOps ==
  { "GET /api/auth", "POST /api/auth", "GET /api/links", "POST /api/links",
    "PUT /api/links", "DELETE /api/links" }

\* one of the calls of a request threw: the remote store was unreachable or
\* answered an error (the local map's operations do not throw)
Faulted(op, calls, req, ts) ==
  \E k \in DOMAIN calls :
    /\ isProduction(env)
    /\ Handled(Backend(env), Thrown(calls[k]), ts)
    /\ last' = Last(op, Thrown(calls[k]), req)

FaultAuthGet ==
  \E action \in {"status", "verify"}, cookie \in Cookies, ts \in ClockReads :
    Faulted("GET /api/auth", GETauthCalls(store[Backend(env)], action, cookie),
            [NoReq EXCEPT !.cookie = cookie], ts)

FaultAuthPost ==
  \E ts \in ClockReads :
    \/ \E pw \in Passwords, salt \in Salts :
         Faulted("POST /api/auth", POSTsetupCalls(store[Backend(env)], pw, salt, ts),
                 [NoReq EXCEPT !.pw = pw], ts)
    \/ \E h \in HeaderSets, pw \in Passwords :
         Faulted("POST /api/auth", POSTloginCalls(store[Backend(env)], h, pw, ts),
                 [NoReq EXCEPT !.ip = getClientIP(h), !.pw = pw], ts)

FaultLinksGet ==
  \E req \in AccessQueries, ts \in ClockReads :
    \E keys \in keyOrders(store[Backend(env)]) :
      Faulted("GET /api/links", GETlinksCalls(store[Backend(env)], req, keys, ts[1]),
              [NoReq EXCEPT !.cookie = req.cookie, !.slug = req.slug], ts)

FaultLinksPost ==
  \E req \in AccessRequests, ts \in ClockReads :
    Faulted("POST /api/links", POSTlinksCalls(store[Backend(env)], req, ts[1]),
            [NoReq EXCEPT !.cookie = req.cookie, !.slug = req.slug], ts)

FaultLinksPut ==
  \E req \in AccessRequests, ts \in ClockReads :
    Faulted("PUT /api/links", PUTlinksCalls(store[Backend(env)], req, ts[1]),
            [NoReq EXCEPT !.cookie = req.cookie, !.slug = req.slug], ts)

FaultLinksDelete ==
  \E req \in AccessQueries, ts \in ClockReads :
    Faulted("DELETE /api/links", DELETElinksCalls(store[Backend(env)], req, ts[1]),
            [NoReq EXCEPT !.cookie = req.cookie, !.slug = req.slug], ts)

NextFault ==
  \/ OperatorSetup
  \/ AuthLoginDirect
  \/ AccessPost
  \/ FaultAuthGet
  \/ FaultAuthPost
  \/ FaultLinksGet
  \/ FaultLinksPost
  \/ FaultLinksPut
  \/ FaultLinksDelete
  \/ AdvanceTick

\* requests to /api/auth and /api/links some of whose store calls throw
SpecFault == InitAuth /\ [][NextFault]_vars

\* the pages' reads: the session probes of /api/auth and the dashboard's
\* list and lookups, between the writes that give them something to read
NextRead ==
  \/ OperatorSetup
  \/ ListPost
  \/ ListDelete
  \/ ListGet
  \/ AuthStatus
  \/ AuthVerify
  \/ AdvanceTick

SpecRead == InitAuth /\ [][NextRead]_vars

\* only the remote store is configured: every storage call is a round trip
\* to it, and requests are served in parallel
InitRemote == InitIn({e \in Envs : e.KV_REST_API_URL /\ ~e.UPSTASH_REDIS_REST_URL})

\* the request in slot p moves on to its next await
Proceeds(p, slot) ==
  /\ inflight' = [inflight EXCEPT ![p] = slot]
  /\ UNCHANGED <<env, now, advances, last>>

\* the request in slot p is answered r
Answered(p, op, r) ==
  /\ inflight' = [inflight EXCEPT ![p] = Idle]
  /\ last' = Last(op, r, inflight[p].req)
  /\ UNCHANGED <<env, now, advances>>

\* the passwords of interleaved logins: the operator's and a wrong guess
RacePasswords == {"secret1", "hunter22"}

\* POST action=login arrives from a client that no header names
LoginArrives ==
  \E p \in Slots, pw \in RacePasswords,
     h \in {x \in HeaderSets : x.xff = << >> /\ x.realIp = ""} :
    /\ inflight[p].pc = "idle"
    /\ history.logins < MaxLogins
    /\ Proceeds(p, [Idle EXCEPT !.pc = "checkRateLimit",
                                !.req = [NoReq EXCEPT !.ip = getClientIP(h), !.pw = pw]])
    /\ history' = [history EXCEPT !.logins = @ + 1]
    /\ UNCHANGED store

\* checkRateLimit up to its set: the record is read and judged
LoginChecks ==
  \E p \in Slots :
    LET s == store[Backend(env)]
        ip == inflight[p].req.ip
        rateLimit == checkRateLimit(s, ip, now)
    IN  /\ inflight[p].pc = "checkRateLimit"
        /\ UNCHANGED <<store, history>>
        /\ IF rateLimit.s # s
             THEN /\ Proceeds(p, [inflight[p] EXCEPT
                                    !.pc = "relock", !.t = now,
                                    !.seen = <<Get(rateLimit.s, "ratelimit", ip)>>])
           ELSE IF ~rateLimit.allowed
             THEN Answered(p, "login", [Resp(s, 429, "rate_limited") EXCEPT
                                          !.lockedUntil = rateLimit.lockedUntil])
           ELSE Proceeds(p, [inflight[p] EXCEPT !.pc = "password", !.t = now])

\* the set of checkRateLimit: the record it read is written with a lock
LoginRelocks ==
  \E p \in Slots :
    LET b == Backend(env)
        data == inflight[p].seen[1]
        s == Set(store[b], "ratelimit", inflight[p].req.ip, data)
    IN  /\ inflight[p].pc = "relock"
        /\ store' = [store EXCEPT ![b] = s]
        /\ Answered(p, "login", [Resp(s, 429, "rate_limited") EXCEPT
                                   !.lockedUntil = data.lockedUntil])
        /\ UNCHANGED history

\* storage.get("auth:password") and the tests of the hash and the password
LoginReadsPassword ==
  \E p \in Slots :
    LET s == store[Backend(env)]
    IN  /\ inflight[p].pc = "password"
        /\ UNCHANGED <<store, history>>
        /\ IF ~Has(s, "auth", "password")
             THEN Answered(p, "login", Resp(s, 400, "not_setup"))
           ELSE IF inflight[p].req.pw = ""
             THEN Answered(p, "login", Resp(s, 400, "password_required"))
           ELSE Proceeds(p, [inflight[p] EXCEPT
                               !.pc = "compare", !.seen = <<Get(s, "auth", "password")>>])

\* bcrypt.compare(password, authData.passwordHash)
LoginCompares ==
  \E p \in Slots :
    LET isValid == bcryptCompare(inflight[p].req.pw, inflight[p].seen[1].passwordHash)
    IN  /\ inflight[p].pc = "compare"
        /\ Proceeds(p, [inflight[p] EXCEPT
                          !.pc = IF isValid THEN "clearRateLimit" ELSE "recordFailedAttempt",
                          !.seen = << >>])
        /\ history' = [history EXCEPT !.compared = IF isValid THEN @ ELSE @ + 1]
        /\ UNCHANGED store

\* recordFailedAttempt up to its set: the clock and the record are read
LoginReadsAttempts ==
  \E p \in Slots :
    LET s == store[Backend(env)]
        ip == inflight[p].req.ip
    IN  /\ inflight[p].pc = "recordFailedAttempt"
        /\ Proceeds(p, [inflight[p] EXCEPT
                          !.pc = "record", !.t = now,
                          !.seen = IF Has(s, "ratelimit", ip)
                                     THEN <<Get(s, "ratelimit", ip)>> ELSE << >>])
        /\ UNCHANGED <<store, history>>

\* the set of recordFailedAttempt: newData, made of the record that was
\* read, is written, and the login is answered
LoginRecords ==
  \E p \in Slots :
    LET b == Backend(env)
        ip == inflight[p].req.ip
        read == IF inflight[p].seen = << >> THEN EmptyStore
                ELSE Set(EmptyStore, "ratelimit", ip, inflight[p].seen[1])
        attemptResult == recordFailedAttempt(read, ip, inflight[p].t)
        s == Set(store[b], "ratelimit", ip, Get(attemptResult.s, "ratelimit", ip))
    IN  /\ inflight[p].pc = "record"
        /\ store' = [store EXCEPT ![b] = s]
        /\ Answered(p, "login",
                    IF attemptResult.locked
                      THEN Resp(s, 429, "locked")
                      ELSE [Resp(s, 401, "invalid_password") EXCEPT
                              !.remaining = attemptResult.remainingAttempts])
        /\ UNCHANGED history

\* clearRateLimit: the del of the record
LoginClears ==
  \E p \in Slots :
    LET b == Backend(env)
    IN  /\ inflight[p].pc = "clearRateLimit"
        /\ store' = [store EXCEPT ![b] = clearRateLimit(store[b], inflight[p].req.ip)]
        /\ Proceeds(p, [inflight[p] EXCEPT !.pc = "session"])
        /\ history' = [history EXCEPT !.compared = 0]

\* the set of the session, and the answer with its cookie
LoginOpensSession ==
  \E p \in Slots :
    LET b == Backend(env)
        tok == generateSessionToken(store[b])
        s == Set(store[b], "session", tok, sessionData(now, now))
    IN  /\ inflight[p].pc = "session"
        /\ tok # 0
        /\ store' = [store EXCEPT ![b] = s]
        /\ Answered(p, "login", [Resp(s, 200, "") EXCEPT !.issued = tok])
        /\ UNCHANGED history

NextLoginRace ==
  \/ OperatorSetup
  \/ LoginArrives
  \/ LoginChecks
  \/ LoginRelocks
  \/ LoginReadsPassword
  \/ LoginCompares
  \/ LoginReadsAttempts
  \/ LoginRecords
  \/ LoginClears
  \/ LoginOpensSession
  \/ AdvanceLockout

\* logins of one client that are handled in parallel, await by await
SpecLoginRace == InitRemote /\ [][NextLoginRace]_vars

\* the bodies of interleaved creates: the first session's cookie or none,
\* one slug, two URLs and a string that is no URL
RaceCreates ==
  { [NoReq EXCEPT !.cookie = c, !.slug = <<"a", "-", "1">>, !.dest = d] :
      c \in {0, 1}, d \in Destinations \ {NoDest} }

\* POST /api/links arrives
CreateArrives ==
  \E p \in Slots, req \in RaceCreates :
    /\ inflight[p].pc = "idle"
    /\ history.creates < MaxCreates
    /\ Proceeds(p, [Idle EXCEPT !.pc = "isAuthorized", !.req = req])
    /\ history' = [history EXCEPT !.creates = @ + 1]
    /\ UNCHANGED store

\* isAuthorized reads the session; the body is parsed and its slug tested
CreateAuthorizes ==
  \E p \in Slots :
    LET s == store[Backend(env)]
        req == inflight[p].req
    IN  /\ inflight[p].pc = "isAuthorized"
        /\ UNCHANGED <<store, history>>
        /\ IF ~isAuthorized(s, req.cookie, now)
             THEN Answered(p, "create", Resp(s, 401, "unauthorized"))
           ELSE IF req.slug = << >> \/ req.dest = NoDest
             THEN Answered(p, "create", Resp(s, 400, "required"))
           ELSE IF ~slugMatches(req.slug)
             THEN Answered(p, "create", Resp(s, 400, "invalid_slug"))
           ELSE Proceeds(p, [inflight[p] EXCEPT !.pc = "existing"])

\* storage.get of the slug, the existence test, the URL test and linkData
CreateTestsExisting ==
  \E p \in Slots :
    LET s == store[Backend(env)]
        req == inflight[p].req
    IN  /\ inflight[p].pc = "existing"
        /\ UNCHANGED <<store, history>>
        /\ IF getThrows(s, "link", req.slug)
             THEN Answered(p, "create", Resp(s, 500, "failed"))
           ELSE IF Has(s, "link", req.slug)
             THEN Answered(p, "create", Resp(s, 409, "conflict"))
           ELSE IF ~urlParses(req.dest)
             THEN Answered(p, "create", Resp(s, 400, "invalid_destination"))
           ELSE Proceeds(p, [inflight[p] EXCEPT
                               !.pc = "set", !.t = now,
                               !.seen = <<linkData(req.dest, now, now, 0,
                                                   IF req.status = "draft" THEN "draft" ELSE "active",
                                                   req.qrCode)>>])

\* storage.set of linkData and the answer 201
CreateStores ==
  \E p \in Slots :
    LET b == Backend(env)
        data == inflight[p].seen[1]
        s == Set(store[b], "link", inflight[p].req.slug, data)
    IN  /\ inflight[p].pc = "set"
        /\ store' = [store EXCEPT ![b] = s]
        /\ Answered(p, "create", [Resp(s, 201, "") EXCEPT
                                    !.body = <<[slug |-> inflight[p].req.slug, data |-> data]>>])
        /\ history' = [history EXCEPT !.created = Append(@, data),
                                      !.removed = @ \ {inflight[p].req.slug}]

NextCreateRace ==
  \/ OperatorSetup
  \/ CreateArrives
  \/ CreateAuthorizes
  \/ CreateTestsExisting
  \/ CreateStores
  \/ AdvanceTick

\* creates of one slug that are handled in parallel, await by await
SpecCreateRace == InitRemote /\ [][NextCreateRace]_vars

\* POST action=setup arrives with the operator's password, another
\* password or one that is too short
SetupArrives ==
  \E p \in Slots, pw \in {"secret1", "hunter22", "abc"} :
    /\ inflight[p].pc = "idle"
    /\ history.setups < MaxSetups
    /\ Proceeds(p, [Idle EXCEPT !.pc = "setup", !.req = [NoReq EXCEPT !.pw = pw]])
    /\ history' = [history EXCEPT !.setups = @ + 1]
    /\ UNCHANGED store

\* storage.get("auth:password"), the existence test and the length test
SetupTestsExisting ==
  \E p \in Slots :
    LET s == store[Backend(env)]
        pw == inflight[p].req.pw
    IN  /\ inflight[p].pc = "setup"
        /\ UNCHANGED <<store, history>>
        /\ IF Has(s, "auth", "password")
             THEN Answered(p, "setup", Resp(s, 400, "already_setup"))
           ELSE IF pw = "" \/ Len(pw) < MIN_PASSWORD_LENGTH
             THEN Answered(p, "setup", Resp(s, 400, "weak_password"))
           ELSE Proceeds(p, [inflight[p] EXCEPT !.pc = "hash"])

\* bcrypt.hash(password, 10) and authData
SetupHashes ==
  \E p \in Slots, salt \in Salts :
    /\ inflight[p].pc = "hash"
    /\ Proceeds(p, [inflight[p] EXCEPT
                      !.pc = "setAuth", !.t = now,
                      !.seen = <<[passwordHash |-> bcryptHash(inflight[p].req.pw, salt),
                                  createdAt |-> now]>>])
    /\ UNCHANGED <<store, history>>

\* storage.set("auth:password", authData)
SetupStoresHash ==
  \E p \in Slots :
    LET b == Backend(env)
    IN  /\ inflight[p].pc = "setAuth"
        /\ store' = [store EXCEPT ![b] = Set(store[b], "auth", "password", inflight[p].seen[1])]
        /\ Proceeds(p, [inflight[p] EXCEPT !.pc = "setupSession", !.seen = << >>])
        /\ history' = [history EXCEPT !.hashed = Append(@, inflight[p].seen[1])]

\* the set of the session of setup, and the answer with its cookie
SetupOpensSession ==
  \E p \in Slots :
    LET b == Backend(env)
        tok == generateSessionToken(store[b])
        s == Set(store[b], "session", tok, sessionData(now, now))
    IN  /\ inflight[p].pc = "setupSession"
        /\ tok # 0
        /\ store' = [store EXCEPT ![b] = s]
        /\ Answered(p, "setup", [Resp(s, 200, "") EXCEPT !.issued = tok])
        /\ UNCHANGED history

NextSetupRace ==
  \/ SetupArrives
  \/ SetupTestsExisting
  \/ SetupHashes
  \/ SetupStoresHash
  \/ SetupOpensSession
  \/ AuthStatus
  \/ AdvanceTick

\* setups that are handled in parallel, await by await
SpecSetupRace == InitRemote /\ [][NextSetupRace]_vars

\* the bodies of interleaved updates of one slug: a new destination or a
\* draft status with the first session's cookie, a new destination without
RaceUpdates ==
  { [NoReq EXCEPT !.cookie = 1, !.slug = <<"a", "-", "1">>,
                  !.dest = [scheme |-> "https", host |-> "b.com", path |-> "/new"]],
    [NoReq EXCEPT !.cookie = 1, !.slug = <<"a", "-", "1">>, !.status = "draft"],
    [NoReq EXCEPT !.slug = <<"a", "-", "1">>,
                  !.dest = [scheme |-> "https", host |-> "b.com", path |-> "/new"]] }

\* the requests in flight that hold, as the value their get returned, the
\* very object that the local map stores under the slug (localKV.get
\* returns the stored object; kv.get returns a parsed copy)
Holding(slug) ==
  { p \in Slots : /\ inflight[p].req.slug = slug
                  /\ Len(inflight[p].seen) = 2
                  /\ inflight[p].seen[2] }

\* PUT /api/links arrives: isAuthorized reads the session, the body is
\* parsed and its slug tested
UpdateAuthorizes ==
  \E p \in Slots, req \in RaceUpdates :
    LET s == store[Backend(env)]
    IN  /\ inflight[p].pc = "idle"
        /\ history.requests < MaxRequests
        /\ history' = [history EXCEPT !.requests = @ + 1]
        /\ UNCHANGED <<store, env, now, advances>>
        /\ IF ~isAuthorized(s, req.cookie, now)
             THEN /\ last' = Last("update", Resp(s, 401, "unauthorized"), req)
                  /\ UNCHANGED inflight
           ELSE IF req.slug = << >>
             THEN /\ last' = Last("update", Resp(s, 400, "required"), req)
                  /\ UNCHANGED inflight
           ELSE /\ inflight' = [inflight EXCEPT ![p] = [Idle EXCEPT !.pc = "existing-put", !.req = req]]
                /\ UNCHANGED last

\* storage.get of the record to update
UpdateReadsExisting ==
  \E p \in Slots :
    LET s == store[Backend(env)]
        slug == inflight[p].req.slug
    IN  /\ inflight[p].pc = "existing-put"
        /\ UNCHANGED <<store, history>>
        /\ IF getThrows(s, "link", slug)
             THEN Answered(p, "update", Resp(s, 500, "failed"))
           ELSE Proceeds(p, [inflight[p] EXCEPT
                               !.pc = "put",
                               !.seen = IF Has(s, "link", slug)
                                          THEN <<Get(s, "link", slug), ~isProduction(env)>>
                                          ELSE << >>])

\* the rest of PUT: the tests of the record that was read and of the
\* destination, updatedData spread from that record, storage.set and the
\* answer; the objects other requests hold are no longer the stored one
UpdateStores ==
  \E p \in Slots :
    LET b == Backend(env)
        req == inflight[p].req
        read == IF inflight[p].seen = << >>
                  THEN Del(store[b], "link", req.slug)
                  ELSE Set(store[b], "link", req.slug, inflight[p].seen[1])
        r == PUTlinks(read, req, now, now)
        s == IF r.http = 200
               THEN Set(store[b], "link", req.slug, Get(r.s, "link", req.slug))
               ELSE store[b]
    IN  /\ inflight[p].pc = "put"
        /\ store' = [store EXCEPT ![b] = s]
        /\ inflight' = [q \in Slots |->
                          IF q = p THEN Idle
                          ELSE IF r.http = 200 /\ q \in Holding(req.slug)
                            THEN [inflight[q] EXCEPT !.seen[2] = FALSE]
                          ELSE inflight[q]]
        /\ last' = Last("update", [r EXCEPT !.s = s], req)
        /\ UNCHANGED <<env, now, advances, history>>

\* GET /r/[slug] arrives: getLink reads the record
ResolveReads ==
  \E p \in Slots :
    LET s == store[ResolverBackend(env)]
        slug == <<"a", "-", "1">>
    IN  /\ inflight[p].pc = "idle"
        /\ history.requests < MaxRequests
        /\ history' = [history EXCEPT !.requests = @ + 1]
        /\ UNCHANGED <<store, env, now, advances>>
        /\ IF getThrows(s, "link", slug) \/ ~Has(s, "link", slug)
             THEN /\ last' = Last("resolve", [Resp(s, 307, "") EXCEPT !.loc = Home],
                                  [NoReq EXCEPT !.slug = slug])
                  /\ UNCHANGED inflight
           ELSE /\ inflight' = [inflight EXCEPT ![p] =
                                  [Idle EXCEPT !.pc = "incrementClicks",
                                               !.req = [NoReq EXCEPT !.slug = slug],
                                               !.seen = <<Get(s, "link", slug)>>]]
                /\ UNCHANGED last

\* incrementClicks and the redirect: the local map's stored object is read
\* again and incremented in place, the remote store is sent HINCRBY
ResolveIncrements ==
  \E p \in Slots :
    LET b == ResolverBackend(env)
        prod == resolverIsProduction(env)
        slug == inflight[p].req.slug
        s == incrementClicks(store[b], prod, slug)
        counted == ~prod /\ Has(store[b], "link", slug)
    IN  /\ inflight[p].pc = "incrementClicks"
        /\ Has(store[b], "link", slug) => Get(store[b], "link", slug).clicks < MaxClicks
        /\ store' = [store EXCEPT ![b] = s]
        /\ inflight' = [q \in Slots |->
                          IF q = p THEN Idle
                          ELSE IF counted /\ q \in Holding(slug)
                            THEN [inflight[q] EXCEPT !.seen[1].clicks = @ + 1]
                          ELSE inflight[q]]
        /\ last' = Last("resolve", [Resp(s, 307, "") EXCEPT !.loc = inflight[p].seen[1].destination],
                        inflight[p].req)
        /\ UNCHANGED <<env, now, advances, history>>

NextUpdateRace ==
  \/ OperatorSetup
  \/ AccessPost
  \/ UpdateAuthorizes
  \/ UpdateReadsExisting
  \/ UpdateStores
  \/ ResolveReads
  \/ ResolveIncrements
  \/ AdvanceTick

\* updates and redirects of one slug that are handled in parallel
SpecUpdateRace == InitAuth /\ [][NextUpdateRace]_vars

\* DELETE /api/links arrives: isAuthorized reads the session, the slug of
\* the query string is tested
DeleteAuthorizes ==
  \E p \in Slots, cookie \in {0, 1} :
    LET s == store[Backend(env)]
        req == [NoReq EXCEPT !.cookie = cookie, !.slug = <<"a", "-", "1">>]
    IN  /\ inflight[p].pc = "idle"
        /\ history.requests < MaxRequests
        /\ history' = [history EXCEPT !.requests = @ + 1]
        /\ UNCHANGED <<store, env, now, advances>>
        /\ IF ~isAuthorized(s, req.cookie, now)
             THEN /\ last' = Last("delete", Resp(s, 401, "unauthorized"), req)
                  /\ UNCHANGED inflight
           ELSE /\ inflight' = [inflight EXCEPT ![p] = [Idle EXCEPT !.pc = "existing-delete", !.req = req]]
                /\ UNCHANGED last

\* storage.get of the record to delete
DeleteReadsExisting ==
  \E p \in Slots :
    LET s == store[Backend(env)]
        slug == inflight[p].req.slug
    IN  /\ inflight[p].pc = "existing-delete"
        /\ UNCHANGED <<store, history>>
        /\ IF getThrows(s, "link", slug)
             THEN Answered(p, "delete", Resp(s, 500, "failed"))
           ELSE Proceeds(p, [inflight[p] EXCEPT
                               !.pc = "del",
                               !.seen = IF Has(s, "link", slug)
                                          THEN <<Get(s, "link", slug)>> ELSE << >>])

\* the rest of DELETE: the test of the record that was read, storage.del
\* and the answer
DeleteRemoves ==
  \E p \in Slots :
    LET b == Backend(env)
        slug == inflight[p].req.slug
        s == Del(store[b], "link", slug)
    IN  /\ inflight[p].pc = "del"
        /\ IF inflight[p].seen = << >>
             THEN /\ Answered(p, "delete", Resp(store[b], 404, "not_found"))
                  /\ UNCHANGED <<store, history>>
             ELSE /\ store' = [store EXCEPT ![b] = s]
                  /\ Answered(p, "delete", Resp(s, 200, ""))
                  /\ history' = [history EXCEPT !.removed = @ \cup {slug}]

NextDeleteRace ==
  \/ OperatorSetup
  \/ CreateArrives
  \/ CreateAuthorizes
  \/ CreateTestsExisting
  \/ CreateStores
  \/ DeleteAuthorizes
  \/ DeleteReadsExisting
  \/ DeleteRemoves
  \/ ResolveReads
  \/ ResolveIncrements

\* deletes and redirects of one slug that are handled in parallel
SpecDeleteRace == InitAuth /\ [][NextDeleteRace]_vars

NextIdentity ==
  \/ OperatorSetup
  \/ AuthLogin
  \/ AdvanceLockout

\* logins of the clients that the headers tell apart
SpecIdentity == InitAuth /\ [][NextIdentity]_vars

NextOrder ==
  \/ AuthSetup
  \/ AuthLoginDirect
  \/ AuthLogout
  \/ AccessPost
  \/ AccessDelete
  \/ Resolve
  \/ AdvanceTick

\* setups, logins, logouts, creates, deletes and redirects in any order,
\* from the empty store
SpecOrder == Init /\ [][NextOrder]_vars

NextSession ==
  \/ AuthSetup
  \/ AuthLoginDirect
  \/ AuthStatus
  \/ AuthVerify
  \/ AuthLogout
  \/ AdvanceSession

\* the credential manager and the life of its sessions
SpecSession == InitAuth /\ [][NextSession]_vars

NextLinks ==
  \/ OperatorSetup
  \/ LinksGet
  \/ LinksPost
  \/ LinksPut
  \/ LinksDelete
  \/ Resolve
  \/ AdvanceTick

\* the link registry and the redirect resolver, behind the session of setup
SpecLinks == Init /\ [][NextLinks]_vars

NextAccess ==
  \/ AuthSetup
  \/ AccessGet
  \/ AccessPost
  \/ AccessPut
  \/ AccessDelete
  \/ AdvanceSession

\* the session check in front of the link registry, over the life of a session
SpecAccess == InitAuth /\ [][NextAccess]_vars

-----------------------------------------------------------------------------
(* Vocabulary of the properties *)

\* the store that /api/auth and /api/links read and write
Registry == store[Backend(env)]

\* the store that /r/[slug] reads and writes
Resolved == store[ResolverBackend(env)]

\* the clock reads of a handler that runs now
NowReads == [i \in 1..3 |-> now]

\* the data model's definition of a valid session: the record exists and
\* its expiresAt is in the future
ValidSession(s, cookie, t) ==
  /\ cookie # 0
  /\ Has(s, "session", cookie)
  /\ Get(s, "session", cookie).expiresAt > t

\* the rate limiter's Locked state: a lockedUntil in the future
Locked(s, ip, t) ==
  Has(s, "ratelimit", ip) /\ Get(s, "ratelimit", ip).lockedUntil > t

\* the stored password is pw
IsPassword(s, pw) ==
  Has(s, "auth", "password") /\ bcryptCompare(pw, Get(s, "auth", "password").passwordHash)

\* the model can still issue a session token
TokenLeft(s) == generateSessionToken(s) # 0

-----------------------------------------------------------------------------
(* C1 *)

\* C1: in every reachable state a rate-limit record that counts 5 failures
\* carries a lockedUntil, and every login from an identity whose recorded
\* lockedUntil is in the future, whatever its password (the correct one
\* included), is answered 429 rate-limited and creates no session record.
C1_LockedLoginRejected ==
  /\ \A ip \in DOMAIN Registry.ratelimit :
       Get(Registry, "ratelimit", ip).attempts >= MAX_LOGIN_ATTEMPTS
         => Get(Registry, "ratelimit", ip).lockedUntil # 0
  /\ \A h \in HeaderSets, pw \in Passwords :
       Locked(Registry, getClientIP(h), now) =>
         LET r == POSTlogin(Registry, h, pw, NowReads)
         IN  /\ r.http = 429
             /\ r.err = "rate_limited"
             /\ r.issued = 0
             /\ r.s.session = Registry.session

\* C1 witness: a login with the correct password was answered 429 while the
\* identity's fifth failure keeps it locked
C1_Witness ==
  /\ last.op = "login"
  /\ last.http = 429
  /\ last.err = "rate_limited"
  /\ IsPassword(Registry, last.req.pw)
  /\ Locked(Registry, last.req.ip, now)
  /\ Get(Registry, "ratelimit", last.req.ip).attempts = MAX_LOGIN_ATTEMPTS

-----------------------------------------------------------------------------
(* C2 *)

\* C2 (as claimed): every request to /api/links whose cookie names no valid
\* session (no cookie, no record, or an expiresAt that is not in the future)
\* is answered 401 and leaves the store unchanged.
C2_UnauthorizedRejected ==
  /\ \A req \in AnyLinkRequest :
       ~ValidSession(Registry, req.cookie, now) =>
         /\ POSTlinks(Registry, req, now, now).http = 401
         /\ POSTlinks(Registry, req, now, now).s = Registry
         /\ PUTlinks(Registry, req, now, now).http = 401
         /\ PUTlinks(Registry, req, now, now).s = Registry
  /\ \A req \in QueryRequests(Slugs) :
       ~ValidSession(Registry, req.cookie, now) =>
         /\ DELETElinks(Registry, req, now).http = 401
         /\ DELETElinks(Registry, req, now).s = Registry
         /\ \A keys \in keyOrders(Registry) :
              /\ GETlinks(Registry, req, keys, now).http = 401
              /\ GETlinks(Registry, req, keys, now).s = Registry

-----------------------------------------------------------------------------
(* C3 *)

\* C3 (as claimed): verify answers authenticated = true exactly for the
\* cookies that name a session record whose expiresAt is strictly greater
\* than the current time.
C3_VerifyIffValid ==
  \A cookie \in Cookies :
    GETverify(Registry, cookie, now).body[1].authenticated
      <=> ValidSession(Registry, cookie, now)

-----------------------------------------------------------------------------
(* C4 *)

\* C4: once auth:password holds a hash, no step changes or removes it, and a
\* setup request, whatever its password, is answered 400, issues no session
\* and leaves the whole store as it was.
C4_SetupOnce ==
  [][ Has(Registry, "auth", "password") =>
        /\ Registry'.auth = Registry.auth
        /\ \A pw \in Passwords, salt \in Salts :
             LET r == POSTsetup(Registry, pw, salt, NowReads)
             IN  r.http = 400 /\ r.issued = 0 /\ r.s = Registry ]_vars

\* C4 witness: a setup with a password that would be accepted was refused
\* because the password is already set
C4_Witness ==
  /\ last.op = "setup"
  /\ last.http = 400
  /\ last.err = "already_setup"
  /\ Len(last.req.pw) >= MIN_PASSWORD_LENGTH
  /\ Has(Registry, "auth", "password")

-----------------------------------------------------------------------------
(* C5 *)

\* C5 (as claimed): once a password is set, a login from an identity that is
\* not locked succeeds and stores a new session when it carries the password,
\* and is refused as an invalid password (401, or 429 when it is the failure
\* that locks the identity) without storing a session when it carries another
\* password.
C5_PasswordRoundTrip ==
  \A h \in HeaderSets, pw \in Passwords \ {""} :
    (/\ Has(Registry, "auth", "password")
     /\ TokenLeft(Registry)
     /\ ~Locked(Registry, getClientIP(h), now)) =>
      LET r == POSTlogin(Registry, h, pw, NowReads)
      IN  IF IsPassword(Registry, pw)
            THEN /\ r.http = 200
                 /\ r.issued \notin DOMAIN Registry.session
                 /\ r.issued \in DOMAIN r.s.session
            ELSE /\ r.err \in {"invalid_password", "locked"}
                 /\ r.http \in {401, 429}
                 /\ r.s.session = Registry.session

-----------------------------------------------------------------------------
(* C6 *)

\* the record of a link as the claims name its fields
Stored(s, slug) == Get(s, "link", slug)

\* C6 (as claimed): while a record is stored for a slug, a create of that slug
\* made with a valid session is answered 409 whatever destination it carries,
\* and leaves the store as it was.
C6_DuplicateAnyDestination ==
  \A req \in AnyLinkRequest :
    (ValidSession(Registry, req.cookie, now) /\ Has(Registry, "link", req.slug)) =>
      LET r == POSTlinks(Registry, req, now, now)
      IN  r.http = 409 /\ r.s = Registry

\* C6 (amended): while a record is stored for a slug, a create of that slug
\* made with a valid session fails and leaves the store as it was: with 409
\* whatever non-empty destination it carries (a URL or not), and with 400
\* when the destination is missing or empty.
C6_DuplicateRejected ==
  \A req \in AnyLinkRequest :
    (ValidSession(Registry, req.cookie, now) /\ Has(Registry, "link", req.slug)) =>
      LET r == POSTlinks(Registry, req, now, now)
      IN  /\ r.s = Registry
          /\ r.http = IF req.dest = NoDest THEN 400 ELSE 409
          /\ r.err = IF req.dest = NoDest THEN "required" ELSE "conflict"

\* C6 witness: a create was answered 409 and the record it met is stored,
\* with clicks counted and an update made since its creation
C6_Witness ==
  /\ last.op = "create"
  /\ last.http = 409
  /\ Has(Registry, "link", last.req.slug)
  /\ Stored(Registry, last.req.slug).clicks > 0
  /\ Stored(Registry, last.req.slug).updatedAt > Stored(Registry, last.req.slug).createdAt

-----------------------------------------------------------------------------
(* C7 *)

\* the response of /r/[slug] in the current state
ResolveNow(slug) == GETresolve(Resolved, resolverIsProduction(env), slug)

\* C7 (as claimed): a redirect request answers 307 to the destination that
\* the registry stores for the slug when it stores one, and a redirect to
\* the home page when it stores none.
C7_ResolveFollowsRegistry ==
  \A slug \in Slugs \ {<< >>} :
    /\ ResolveNow(slug).http = 307
    /\ ResolveNow(slug).loc =
         IF Has(Registry, "link", slug) THEN Stored(Registry, slug).destination ELSE Home

-----------------------------------------------------------------------------
(* C8 *)

\* the store after /r/[slug] has been handled in the current state
AfterResolve(slug) == [store EXCEPT ![ResolverBackend(env)] = ResolveNow(slug).s]

\* C8 (as claimed): where the resolver reads the store the registry writes,
\* local or remote, each redirect of a slug that has a record adds exactly
\* one to the stored clicks (so N redirects in sequence add N).
C8_ClickPerRedirect ==
  \A slug \in Slugs \ {<< >>} :
    (Backend(env) = ResolverBackend(env) /\ Has(Registry, "link", slug)) =>
      Stored(AfterResolve(slug)[Backend(env)], slug).clicks = Stored(Registry, slug).clicks + 1

-----------------------------------------------------------------------------
(* C9 *)

\* C9: a successful update stores the old record with updatedAt set to the
\* time of the update and with each of destination, status and qrCode
\* replaced by the request's value if the request carries one; clicks,
\* createdAt and the fields the request does not carry keep their values, and
\* no other key of the store changes.
C9_UpdateFrame ==
  \A req \in AnyLinkRequest :
    LET r == PUTlinks(Registry, req, now, now + 1)
    IN  r.http = 200 =>
          LET old == Stored(Registry, req.slug)
              new == Stored(r.s, req.slug)
          IN  /\ new.clicks = old.clicks
              /\ new.createdAt = old.createdAt
              /\ new.kind = old.kind
              /\ new.updatedAt = now + 1
              /\ new.destination = IF req.dest = NoDest THEN old.destination ELSE req.dest
              /\ new.status = IF req.status = "" THEN old.status ELSE req.status
              /\ new.qrCode = IF req.qrCode = "" THEN old.qrCode ELSE req.qrCode
              /\ DOMAIN r.s.link = DOMAIN Registry.link
              /\ \A k \in DOMAIN Registry.link \ {req.slug} : Stored(r.s, k) = Stored(Registry, k)
              /\ r.s.auth = Registry.auth
              /\ r.s.session = Registry.session
              /\ r.s.ratelimit = Registry.ratelimit

\* C9 witness: an update that carried only a status succeeded: the record is
\* a draft, still points where it was created to point, has kept its clicks
\* and QR code, and has a later updatedAt
C9_Witness ==
  /\ last.op = "update"
  /\ last.http = 200
  /\ Has(Registry, "link", last.req.slug)
  /\ Stored(Registry, last.req.slug).status = "draft"
  /\ Stored(Registry, last.req.slug).destination.host = "a.com"
  /\ Stored(Registry, last.req.slug).qrCode # ""
  /\ Stored(Registry, last.req.slug).clicks > 0
  /\ Stored(Registry, last.req.slug).updatedAt > Stored(Registry, last.req.slug).createdAt

-----------------------------------------------------------------------------
(* C10 *)

\* C10 (as claimed): a create or an update made with a valid session whose
\* destination does not parse as an absolute URL is answered 400 and leaves
\* the store as it was.
C10_BadDestination400 ==
  \A req \in AnyLinkRequest :
    (ValidSession(Registry, req.cookie, now) /\ ~urlParses(req.dest)) =>
      /\ POSTlinks(Registry, req, now, now).http = 400
      /\ POSTlinks(Registry, req, now, now).s = Registry
      /\ PUTlinks(Registry, req, now, now + 1).http = 400
      /\ PUTlinks(Registry, req, now, now + 1).s = Registry

\* C10 (amended): a create or an update made with a valid session whose
\* destination is not empty and does not parse as an absolute URL fails and
\* leaves the store as it was; it is answered 400 unless an earlier check
\* answers first (409 for a create of a stored slug, 404 for an update of a
\* slug that is not stored).  An update with an empty destination is an
\* update without one.  Every destination in the store parses as a URL.
C10_BadDestinationRejected ==
  /\ \A slug \in DOMAIN Registry.link :
       Stored(Registry, slug).kind = "json" => urlParses(Stored(Registry, slug).destination)
  /\ \A req \in AnyLinkRequest :
       (ValidSession(Registry, req.cookie, now) /\ req.dest # NoDest /\ ~urlParses(req.dest)) =>
         LET c == POSTlinks(Registry, req, now, now)
             u == PUTlinks(Registry, req, now, now + 1)
         IN  /\ c.s = Registry
             /\ u.s = Registry
             /\ c.http = IF Has(Registry, "link", req.slug) THEN 409 ELSE 400
             /\ u.http = IF req.slug = << >> THEN 400
                         ELSE IF Has(Registry, "link", req.slug) THEN 400 ELSE 404
             /\ (Has(Registry, "link", req.slug) => u.err = "invalid_destination")
             /\ ((slugMatches(req.slug) /\ ~Has(Registry, "link", req.slug))
                   => c.err = "invalid_destination")

\* C10 witness: an update of a stored slug was refused for its destination
C10_Witness ==
  /\ last.op = "update"
  /\ last.http = 400
  /\ last.err = "invalid_destination"
  /\ Has(Registry, "link", last.req.slug)
  /\ urlParses(Stored(Registry, last.req.slug).destination)

-----------------------------------------------------------------------------
(* C11 *)

\* C11: every key under link: in either store has a slug of one or more
\* letters, digits, hyphens and underscores; a create answers 201 only for
\* such a slug, and a create made with a valid session for any other slug
\* (the empty one included) is answered 400 and leaves the store as it was.
C11_SlugFormat ==
  /\ \A b \in Backends : \A slug \in DOMAIN store[b].link : slugMatches(slug)
  /\ \A req \in AnyLinkRequest :
       LET r == POSTlinks(Registry, req, now, now)
       IN  /\ r.http = 201 => slugMatches(req.slug)
           /\ (ValidSession(Registry, req.cookie, now) /\ ~slugMatches(req.slug))
                => r.http = 400 /\ r.s = Registry

\* C11 witness: while a link is stored, a create with a destination and a
\* slug that holds a space and a bang was answered 400 for its slug
C11_Witness ==
  /\ last.op = "create"
  /\ last.http = 400
  /\ last.err = "invalid_slug"
  /\ last.req.slug # << >>
  /\ ~slugMatches(last.req.slug)
  /\ DOMAIN Registry.link # {}

-----------------------------------------------------------------------------
(* C12 *)

\* the identity's record carries a lockedUntil that is not in the future
LockExpired(s, ip, t) ==
  /\ Has(s, "ratelimit", ip)
  /\ Get(s, "ratelimit", ip).lockedUntil # 0
  /\ Get(s, "ratelimit", ip).lockedUntil <= t

\* C12 (as claimed): a login made at a time t >= lockedUntil by an identity
\* whose lock was set is allowed by the rate limiter, which writes no new
\* lockedUntil, and succeeds when it carries the stored password.
C12_LockExpires ==
  \A h \in HeaderSets, pw \in Passwords :
    LockExpired(Registry, getClientIP(h), now) =>
      /\ checkRateLimit(Registry, getClientIP(h), now).allowed
      /\ checkRateLimit(Registry, getClientIP(h), now).s = Registry
      /\ POSTlogin(Registry, h, pw, NowReads).err # "rate_limited"
      /\ (IsPassword(Registry, pw) /\ TokenLeft(Registry))
           => POSTlogin(Registry, h, pw, NowReads).http = 200

-----------------------------------------------------------------------------
(* C13 *)

\* the failures that the identity's record counts inside the window that is
\* open at time t; 0 when there is no record or its window is over
Counted(s, ip, t) ==
  IF Has(s, "ratelimit", ip) /\ (t - Get(s, "ratelimit", ip).firstAttempt) <= ATTEMPT_WINDOW
    THEN Get(s, "ratelimit", ip).attempts
    ELSE 0

\* C13: once a password is set, a login with a wrong password from an
\* identity that has k - 1 < 5 failures counted in its open window (none when
\* it is Fresh) stores attempts = k and keeps the window's firstAttempt (now
\* for the first); for k < 5 it is answered 401 with remainingAttempts = 5 - k
\* and sets no lock, for k = 5 it is answered 429 locked and stores
\* lockedUntil = now + 15 minutes.
C13_FailuresCount ==
  \A h \in HeaderSets, pw \in Passwords \ {""} :
    LET ip == getClientIP(h)
        k == Counted(Registry, ip, now) + 1
        r == POSTlogin(Registry, h, pw, NowReads)
    IN  (/\ Has(Registry, "auth", "password")
         /\ ~IsPassword(Registry, pw)
         /\ ~Locked(Registry, ip, now)
         /\ k <= MAX_LOGIN_ATTEMPTS) =>
          /\ Has(r.s, "ratelimit", ip)
          /\ Get(r.s, "ratelimit", ip).attempts = k
          /\ Get(r.s, "ratelimit", ip).firstAttempt =
               IF k = 1 THEN now ELSE Get(Registry, "ratelimit", ip).firstAttempt
          /\ r.s.session = Registry.session
          /\ IF k < MAX_LOGIN_ATTEMPTS
               THEN /\ r.http = 401
                    /\ r.err = "invalid_password"
                    /\ r.remaining = MAX_LOGIN_ATTEMPTS - k
                    /\ Get(r.s, "ratelimit", ip).lockedUntil = 0
               ELSE /\ r.http = 429
                    /\ r.err = "locked"
                    /\ Get(r.s, "ratelimit", ip).lockedUntil = now + LOCKOUT_DURATION

\* C13 witness: the fifth failure of a window that opened earlier has just
\* been answered 429 and has locked the identity for 15 minutes from now
C13_Witness ==
  /\ last.op = "login"
  /\ last.http = 429
  /\ last.err = "locked"
  /\ Has(Registry, "ratelimit", last.req.ip)
  /\ Get(Registry, "ratelimit", last.req.ip).attempts = MAX_LOGIN_ATTEMPTS
  /\ Get(Registry, "ratelimit", last.req.ip).firstAttempt < now
  /\ Get(Registry, "ratelimit", last.req.ip).lockedUntil = now + LOCKOUT_DURATION

-----------------------------------------------------------------------------
(* C14 *)

\* the clock reads of a handler that runs at time t
ReadsAt(t) == [i \in 1..3 |-> t]

\* C14: a login that succeeds leaves no rate-limit record for its identity,
\* keeps the records of the other identities and adds one session record,
\* valid for seven days; a wrong password sent by the identity afterwards,
\* at once or a millisecond later, is counted as attempts = 1 with the time
\* of that failure as firstAttempt.
C14_SuccessClears ==
  \A h \in HeaderSets, pw \in Passwords :
    LET ip == getClientIP(h)
        r == POSTlogin(Registry, h, pw, NowReads)
    IN  (r.http = 200 /\ r.issued # 0) =>
          /\ IsPassword(Registry, pw)
          /\ ~Has(r.s, "ratelimit", ip)
          /\ \A other \in DOMAIN Registry.ratelimit \ {ip} :
               Has(r.s, "ratelimit", other)
               /\ Get(r.s, "ratelimit", other) = Get(Registry, "ratelimit", other)
          /\ DOMAIN r.s.session = DOMAIN Registry.session \cup {r.issued}
          /\ r.issued \notin DOMAIN Registry.session
          /\ Get(r.s, "session", r.issued).expiresAt = now + SESSION_EXPIRY
          /\ \A wrong \in Passwords \ {"", pw}, t \in {now, now + 1} :
               LET f == POSTlogin(r.s, h, wrong, ReadsAt(t))
               IN  /\ f.http = 401
                   /\ f.remaining = MAX_LOGIN_ATTEMPTS - 1
                   /\ Get(f.s, "ratelimit", ip) =
                        [attempts |-> 1, firstAttempt |-> t, lockedUntil |-> 0]

\* C14 witness: a login succeeded for an identity that had failures on
\* record, fewer than five, and no record is left for it
C14_Witness ==
  /\ last.op = "login"
  /\ last.http = 200
  /\ last.issued # 0
  /\ last.failures \in 1..(MAX_LOGIN_ATTEMPTS - 1)
  /\ ~Has(Registry, "ratelimit", last.req.ip)
  /\ Has(Registry, "session", last.issued)

-----------------------------------------------------------------------------
(* C15 *)

\* C15: while no AuthRecord exists, a setup with no password or one of fewer
\* than 6 characters is answered 400 and leaves the whole store as it was; a
\* setup with 6 characters or more is answered 200, stores an AuthRecord
\* whose hash verifies that password, created now, and adds exactly one
\* session record (the one whose token it issues) and nothing else.
C15_SetupValidates ==
  \A pw \in SetupPasswords \cup Passwords, salt \in Salts :
    LET r == POSTsetup(Registry, pw, salt, NowReads)
    IN  (~Has(Registry, "auth", "password") /\ TokenLeft(Registry)) =>
          IF Len(pw) < MIN_PASSWORD_LENGTH
            THEN r.http = 400 /\ r.err = "weak_password" /\ r.issued = 0 /\ r.s = Registry
            ELSE /\ r.http = 200
                 /\ IsPassword(r.s, pw)
                 /\ \A other \in (SetupPasswords \cup Passwords) \ {pw} : ~IsPassword(r.s, other)
                 /\ Get(r.s, "auth", "password").createdAt = now
                 /\ r.issued \notin DOMAIN Registry.session
                 /\ DOMAIN r.s.session = DOMAIN Registry.session \cup {r.issued}
                 /\ Get(r.s, "session", r.issued) =
                      [createdAt |-> now, expiresAt |-> now + SESSION_EXPIRY]
                 /\ r.s.ratelimit = Registry.ratelimit
                 /\ r.s.link = Registry.link

\* C15 witness: a setup with a password of exactly 6 characters succeeded
\* and the store holds its AuthRecord and one session
C15_Witness ==
  /\ last.op = "setup"
  /\ last.http = 200
  /\ Len(last.req.pw) = MIN_PASSWORD_LENGTH
  /\ IsPassword(Registry, last.req.pw)
  /\ DOMAIN Registry.session = {last.issued}

-----------------------------------------------------------------------------
(* C16 *)

\* the slugs that the list answered for store s with cookie c names, for
\* every order in which keys("link:*") may answer
Listed(s, c, t) ==
  { GETlinks(s, [NoReq EXCEPT !.cookie = c], keys, t).body[i].slug :
      keys \in keyOrders(s), i \in 1..Cardinality(DOMAIN s.link) }

\* what a client with cookie c sees of a slug that store s has no record of,
\* when the resolver reads store sr: get answers 404, the list does not name
\* the slug, resolve redirects to the home page and writes nothing
Gone(s, sr, c, slug, t) ==
  /\ \A keys \in keyOrders(s) :
       /\ GETlinks(s, [NoReq EXCEPT !.cookie = c, !.slug = slug], keys, t).http = 404
       /\ GETlinks(s, [NoReq EXCEPT !.cookie = c], keys, t).http = 200
  /\ slug \notin Listed(s, c, t)
  /\ GETresolve(sr, resolverIsProduction(env), slug).http = 307
  /\ GETresolve(sr, resolverIsProduction(env), slug).loc = Home
  /\ GETresolve(sr, resolverIsProduction(env), slug).s = sr

\* C16: a delete that succeeds removes the slug's record and nothing else;
\* in its resulting store, and in every reachable state where a slug has no
\* record, get answers 404, the list does not name the slug and resolve
\* redirects to the home page; a create of the deleted slug with a URL then
\* succeeds and stores clicks = 0 and both timestamps of the creation.
C16_DeleteRemoves ==
  /\ \A q \in QueryRequests(Slugs) :
       LET d == DELETElinks(Registry, q, now)
           after == [store EXCEPT ![Backend(env)] = d.s]
       IN  d.http = 200 =>
             /\ Has(Registry, "link", q.slug)
             /\ DOMAIN d.s.link = DOMAIN Registry.link \ {q.slug}
             /\ \A k \in DOMAIN d.s.link : Stored(d.s, k) = Stored(Registry, k)
             /\ d.s.auth = Registry.auth
             /\ d.s.session = Registry.session
             /\ d.s.ratelimit = Registry.ratelimit
             /\ Gone(d.s, after[ResolverBackend(env)], q.cookie, q.slug, now)
             /\ \A req \in AnyLinkRequest :
                  (req.cookie = q.cookie /\ req.slug = q.slug /\ urlParses(req.dest)) =>
                    LET c == POSTlinks(d.s, req, now + 1, now + 1)
                    IN  /\ c.http = 201
                        /\ Stored(c.s, q.slug).clicks = 0
                        /\ Stored(c.s, q.slug).createdAt = now + 1
                        /\ Stored(c.s, q.slug).updatedAt = now + 1
                        /\ Stored(c.s, q.slug).destination = req.dest
  /\ \A c \in Cookies, slug \in Slugs \ {<< >>} :
       (ValidSession(Registry, c, now) /\ ~Has(Registry, "link", slug)) =>
         Gone(Registry, Resolved, c, slug, now)

\* C16 witness: a delete has just succeeded at a time after the first
\* instant, and the store has no record of the slug
C16_Witness ==
  /\ last.op = "delete"
  /\ last.http = 200
  /\ slugMatches(last.req.slug)
  /\ ~Has(Registry, "link", last.req.slug)
  /\ now > 0

-----------------------------------------------------------------------------
(* C17 *)

\* C17: with a valid session, a get, an update (whatever body it carries)
\* and a delete of a slug that has no record are each answered 404 and leave
\* the store as it was.
C17_UnknownSlug404 ==
  \A req \in AnyLinkRequest :
    (/\ ValidSession(Registry, req.cookie, now)
     /\ req.slug # << >>
     /\ ~Has(Registry, "link", req.slug)) =>
      /\ PUTlinks(Registry, req, now, now + 1).http = 404
      /\ PUTlinks(Registry, req, now, now + 1).s = Registry
      /\ DELETElinks(Registry, req, now).http = 404
      /\ DELETElinks(Registry, req, now).s = Registry
      /\ \A keys \in keyOrders(Registry) :
           /\ GETlinks(Registry, req, keys, now).http = 404
           /\ GETlinks(Registry, req, keys, now).s = Registry

\* C17 witness: an update of a well-formed slug was answered 404 and the
\* store, which knows a password and a session, has no record of the slug
C17_Witness ==
  /\ last.op = "update"
  /\ last.http = 404
  /\ last.err = "not_found"
  /\ slugMatches(last.req.slug)
  /\ ~Has(Registry, "link", last.req.slug)
  /\ DOMAIN Registry.session # {}

-----------------------------------------------------------------------------
(* C18 *)

\* C18: with a valid session, and for every order in which keys("link:*")
\* may answer, the list is answered 200 with one entry per stored slug and
\* no other entry, each entry carrying its slug and the record stored under
\* it, and every entry's updatedAt is at least that of the entry after it.
C18_ListSorted ==
  \A c \in Cookies, keys \in keyOrders(Registry) :
    ValidSession(Registry, c, now) =>
      LET r == GETlinks(Registry, [NoReq EXCEPT !.cookie = c], keys, now)
      IN  /\ r.http = 200
          /\ r.s = Registry
          /\ Len(r.body) = Cardinality(DOMAIN Registry.link)
          /\ { r.body[i].slug : i \in 1..Len(r.body) } = DOMAIN Registry.link
          /\ \A i \in 1..Len(r.body) : r.body[i].data = Stored(Registry, r.body[i].slug)
          /\ \A i \in 1..(Len(r.body) - 1) :
               r.body[i].data.updatedAt >= r.body[i + 1].data.updatedAt

\* C18 witness: the list was answered with two entries, the first of them
\* touched by an update after the second was last written
C18_Witness ==
  /\ last.op = "get"
  /\ last.http = 200
  /\ last.req.slug = << >>
  /\ Len(last.body) = 2
  /\ last.body[1].slug # last.body[2].slug
  /\ last.body[1].data.updatedAt > last.body[2].data.updatedAt
  /\ last.body[1].data.updatedAt > last.body[1].data.createdAt

-----------------------------------------------------------------------------
(* C19 *)

\* C19: a create that is answered 201 adds the record of its slug and
\* changes nothing else: the record has clicks = 0, createdAt = updatedAt =
\* the time of the create, the request's destination, the request's QR code,
\* and the status "draft" if the request's status is "draft", else "active".
C19_CreatePersists ==
  \A req \in AnyLinkRequest :
    LET r == POSTlinks(Registry, req, now, now)
    IN  r.http = 201 =>
          /\ ~Has(Registry, "link", req.slug)
          /\ DOMAIN r.s.link = DOMAIN Registry.link \cup {req.slug}
          /\ \A k \in DOMAIN Registry.link : Stored(r.s, k) = Stored(Registry, k)
          /\ r.s.auth = Registry.auth
          /\ r.s.session = Registry.session
          /\ r.s.ratelimit = Registry.ratelimit
          /\ Stored(r.s, req.slug).clicks = 0
          /\ Stored(r.s, req.slug).createdAt = now
          /\ Stored(r.s, req.slug).updatedAt = now
          /\ Stored(r.s, req.slug).destination = req.dest
          /\ Stored(r.s, req.slug).qrCode = req.qrCode
          /\ Stored(r.s, req.slug).status = IF req.status = "draft" THEN "draft" ELSE "active"
          /\ r.body = <<[slug |-> req.slug, data |-> Stored(r.s, req.slug)]>>

\* C19 witness: a create has just been answered 201, at a time after the
\* first instant, and its record is a draft with no clicks and both
\* timestamps of this instant
C19_Witness ==
  /\ last.op = "create"
  /\ last.http = 201
  /\ Has(Registry, "link", last.req.slug)
  /\ Stored(Registry, last.req.slug).status = "draft"
  /\ Stored(Registry, last.req.slug).clicks = 0
  /\ Stored(Registry, last.req.slug).createdAt = now
  /\ Stored(Registry, last.req.slug).updatedAt = now
  /\ now > 0

-----------------------------------------------------------------------------
(* C20 *)

\* C20: a logout, whatever cookie it carries, is answered 200 and leaves the
\* store as it was; if the cookie named a session whose expiresAt is in the
\* future, then after the logout, now and at every later time before that
\* expiresAt (checked at its last millisecond), verify and status answer
\* true for the cookie and /api/links authorizes it.
C20_LogoutKeepsSession ==
  \A cookie \in Cookies :
    LET r == POSTlogout(Registry, cookie)
    IN  /\ r.http = 200
        /\ r.s = Registry
        /\ ValidSession(Registry, cookie, now) =>
             \A t \in {now, Get(Registry, "session", cookie).expiresAt - 1} :
               /\ GETverify(r.s, cookie, t).body[1].authenticated
               /\ GETstatus(r.s, cookie, t).body[1].isAuthenticated
               /\ isAuthorized(r.s, cookie, t)
               /\ \A keys \in keyOrders(r.s) :
                    GETlinks(r.s, [NoReq EXCEPT !.cookie = cookie], keys, t).http = 200

\* C20 witness: a logout carrying the cookie of a session has just been
\* answered, some time after the session was created, and the session
\* record is still stored and not expired
C20_Witness ==
  /\ last.op = "logout"
  /\ last.http = 200
  /\ last.req.cookie # 0
  /\ ValidSession(Registry, last.req.cookie, now)
  /\ Get(Registry, "session", last.req.cookie).createdAt < now

-----------------------------------------------------------------------------
(* C21 *)

\* C21 (as claimed): every stored session record has expiresAt = createdAt +
\* 7 days, also when the clock moves between the reads of a handler.
C21_ExpiryFromCreation ==
  \A tok \in DOMAIN Registry.session :
    Get(Registry, "session", tok).expiresAt =
      Get(Registry, "session", tok).createdAt + SESSION_EXPIRY

-----------------------------------------------------------------------------
(* C22 *)

\* the slug and the two destinations of the end-to-end scenario
Promo == <<"a", "-", "1">>
Sale == [scheme |-> "https", host |-> "a.com", path |-> "/"]
NewSale == [scheme |-> "https", host |-> "b.com", path |-> "/new"]

\* both stores after a handler of /api/auth or /api/links answered r
AfterApi(st, e, r) == [st EXCEPT ![Backend(e)] = r.s]

\* both stores after the resolver answered r
AfterResolver(st, e, r) == [st EXCEPT ![ResolverBackend(e)] = r.s]

\* the resolver's answer for the scenario's slug on the stores st
ResolvePromo(st, e) == GETresolve(st[ResolverBackend(e)], resolverIsProduction(e), Promo)

\* the scenario run from the stores st at time t in environment e: the
\* answers of its seven requests, and the clicks the registry holds for the
\* slug after the first and the second redirect (-1 when it holds no record)
Scenario(st, e, t) ==
  LET setup == POSTsetup(st[Backend(e)], "secret1", "s1", ReadsAt(t))
      st1 == AfterApi(st, e, setup)
      create == POSTlinks(st1[Backend(e)],
                          [NoReq EXCEPT !.cookie = setup.issued, !.slug = Promo, !.dest = Sale],
                          t, t)
      st2 == AfterApi(st1, e, create)
      resolve1 == ResolvePromo(st2, e)
      st3 == AfterResolver(st2, e, resolve1)
      update == PUTlinks(st3[Backend(e)],
                         [NoReq EXCEPT !.cookie = setup.issued, !.slug = Promo, !.dest = NewSale],
                         t, t)
      st4 == AfterApi(st3, e, update)
      resolve2 == ResolvePromo(st4, e)
      st5 == AfterResolver(st4, e, resolve2)
      delete == DELETElinks(st5[Backend(e)],
                            [NoReq EXCEPT !.cookie = setup.issued, !.slug = Promo], t)
      st6 == AfterApi(st5, e, delete)
      resolve3 == ResolvePromo(st6, e)
      clicksIn(x) == IF Has(x[Backend(e)], "link", Promo)
                       THEN Stored(x[Backend(e)], Promo).clicks ELSE -1
  IN  [setup |-> setup, create |-> create, resolve1 |-> resolve1, clicks1 |-> clicksIn(st3),
       update |-> update, resolve2 |-> resolve2, clicks2 |-> clicksIn(st5),
       delete |-> delete, resolve3 |-> resolve3]

\* C22 (as claimed): run on a deployment that has no password yet, the
\* scenario goes as told: setup issues a session, the create succeeds, the
\* first redirect goes to the destination and clicks is 1, the update
\* succeeds, the second redirect goes to the new destination and clicks is
\* 2, the delete succeeds, the third redirect goes to the home page.
C22_EndToEnd ==
  (~Has(Registry, "auth", "password") /\ DOMAIN Registry.link = {}) =>
    LET run == Scenario(store, env, now)
    IN  /\ run.setup.http = 200 /\ run.setup.issued # 0
        /\ run.create.http = 201
        /\ run.resolve1.http = 307 /\ run.resolve1.loc = Sale
        /\ run.clicks1 = 1
        /\ run.update.http = 200
        /\ run.resolve2.http = 307 /\ run.resolve2.loc = NewSale
        /\ run.clicks2 = 2
        /\ run.delete.http = 200
        /\ run.resolve3.http = 307 /\ run.resolve3.loc = Home

-----------------------------------------------------------------------------
(* C23 *)

\* what may become of the increment that GET /r/[slug] starts and does not
\* await: on the remote store the call completes, is rejected (the rejection
\* is caught and dropped) or is still pending when the response leaves; on
\* the local map it has run before incrementClicks returns
IncrementOutcomes(prod) == IF prod THEN {"completes", "fails", "never"} ELSE {"completes"}

\* GET /r/[slug] on the store s the resolver selected, with the increment
\* ending as outcome
GETresolveWhen(s, prod, slug, outcome) ==
  IF getThrows(s, "link", slug)
    THEN [Resp(s, 307, "") EXCEPT !.loc = Home]
  ELSE IF ~Has(s, "link", slug)
    THEN [Resp(s, 307, "") EXCEPT !.loc = Home]
  ELSE [Resp(IF outcome = "completes" THEN incrementClicks(s, prod, slug) ELSE s, 307, "")
          EXCEPT !.loc = Get(s, "link", slug).destination]

\* C23 (as claimed): for every slug the registry has a record of and every
\* outcome of the increment, resolve answers 307 to the stored destination.
C23_RedirectWhateverIncrement ==
  \A slug \in DOMAIN Registry.link :
    \A outcome \in IncrementOutcomes(resolverIsProduction(env)) :
      LET r == GETresolveWhen(Resolved, resolverIsProduction(env), slug, outcome)
      IN  r.http = 307 /\ r.loc = Stored(Registry, slug).destination

-----------------------------------------------------------------------------
(* C24 *)

\* the login of (h, pw) at the clock's time records a failure
RecordsFailure(s, h, pw) ==
  POSTlogin(s, h, pw, NowReads).err \in {"invalid_password", "locked"}

\* C24: a failed login recorded while the identity's window is open (at
\* most ATTEMPT_WINDOW after firstAttempt) adds one to attempts and keeps
\* firstAttempt; one recorded later than that, or with no record, leaves
\* the record attempts = 1, firstAttempt = now, no lockedUntil.
C24_WindowAnchorsAtFirstFailure ==
  \A h \in HeaderSets, pw \in Passwords :
    RecordsFailure(Registry, h, pw) =>
      LET ip  == getClientIP(h)
          old == Get(Registry, "ratelimit", ip)
          new == Get(POSTlogin(Registry, h, pw, NowReads).s, "ratelimit", ip)
      IN  /\ new = Get(recordFailedAttempt(Registry, ip, now).s, "ratelimit", ip)
          /\ IF Has(Registry, "ratelimit", ip) /\ now - old.firstAttempt <= ATTEMPT_WINDOW
               THEN new.attempts = old.attempts + 1 /\ new.firstAttempt = old.firstAttempt
               ELSE new = [attempts |-> 1, firstAttempt |-> now, lockedUntil |-> 0]

\* a failed login has replaced a record of two or more failures whose window
\* had run out
C24_Witness ==
  /\ last.op = "login"
  /\ last.err = "invalid_password"
  /\ last.failures >= 2
  /\ Has(Registry, "ratelimit", last.req.ip)
  /\ Get(Registry, "ratelimit", last.req.ip) = [attempts |-> 1, firstAttempt |-> now, lockedUntil |-> 0]
  /\ now > ATTEMPT_WINDOW

-----------------------------------------------------------------------------
(* C25 *)

\* C25 (as claimed): a request to /api/auth or /api/links one of whose
\* store calls threw, the session lookup of isAuthorized included, was
\* answered by the handler's catch with the generic 500 JSON error; no
\* exception left a handler.
C25_EveryFaultCaught ==
  last.op \in FaultOps => last.http = 500 /\ last.err = "failed"

-----------------------------------------------------------------------------
(* C26 *)

\* C26 (as claimed): whatever the two environment variables are, the
\* resolver selects the backend that the link registry and the credential
\* manager select, so that every link the registry holds is the record the
\* resolver reads for its slug.
C26_OneBackend ==
  \A slug \in DOMAIN Registry.link :
    /\ ResolverBackend(env) = Backend(env)
    /\ Has(Resolved, "link", slug)
    /\ Get(Resolved, "link", slug) = Get(Registry, "link", slug)

-----------------------------------------------------------------------------
(* C27 *)

\* C27 (as claimed): the status of every link record the registry holds is
\* "draft" or "active".
C27_StatusDraftOrActive ==
  \A slug \in DOMAIN Registry.link :
    Stored(Registry, slug).status \in {"draft", "active"}

-----------------------------------------------------------------------------
(* C28 *)

\* C28: GET /api/auth with action status or verify, and GET /api/links as
\* a list or by slug, leave the store as it was whatever cookie and slug
\* they carry, so that the same GET made again returns the same body.
C28_ReadsLeaveStore ==
  /\ \A cookie \in Cookies :
       /\ GETstatus(Registry, cookie, now).s = Registry
       /\ GETverify(Registry, cookie, now).s = Registry
  /\ \A req \in QueryRequests(ListSlugs \cup {<< >>}), keys \in keyOrders(Registry) :
       LET first == GETlinks(Registry, req, keys, now)
           again == GETlinks(first.s, req, keys, now)
       IN  first.s = Registry /\ again.body = first.body /\ again.http = first.http

\* a GET by slug has returned a stored record, later than the record was
\* written, and the record is as it was written
C28_Witness ==
  /\ last.op = "get"
  /\ last.http = 200
  /\ last.req.slug # << >>
  /\ Has(Registry, "link", last.req.slug)
  /\ last.body = <<[slug |-> last.req.slug, data |-> Stored(Registry, last.req.slug)]>>
  /\ Stored(Registry, last.req.slug).updatedAt < now

-----------------------------------------------------------------------------
(* C29 *)

\* C29 (as claimed): however the logins of one client interleave, at most
\* MAX_LOGIN_ATTEMPTS wrong passwords are given to bcrypt.compare within
\* one window of ATTEMPT_WINDOW, counted from the last successful login
\* if there was one.
C29_AtMostFiveGuesses ==
  now < ATTEMPT_WINDOW => history.compared <= MAX_LOGIN_ATTEMPTS

-----------------------------------------------------------------------------
(* C30 *)

\* C30 (as claimed): however the creates of one slug interleave, at most
\* one of them is answered 201, and the record it wrote is the record the
\* registry holds for the slug.
C30_OneCreateWins ==
  /\ Len(history.created) <= 1
  /\ history.created # << >> =>
       /\ Has(Registry, "link", <<"a", "-", "1">>)
       /\ Stored(Registry, <<"a", "-", "1">>) = history.created[1]

-----------------------------------------------------------------------------
(* C31 *)

\* C31 (as claimed): however the setups interleave, the password hash is
\* written at most once, and the AuthData the store holds is the one the
\* first successful setup wrote.
C31_HashWrittenOnce ==
  /\ Len(history.hashed) <= 1
  /\ history.hashed # << >> =>
       Get(Registry, "auth", "password") = history.hashed[1]

-----------------------------------------------------------------------------
(* C32 *)

\* a step in which the record of a slug stays stored does not lower its clicks
ClicksKept ==
  \A b \in Backends :
    \A slug \in DOMAIN store[b].link \cap DOMAIN store'[b].link :
      Get(store'[b], "link", slug).clicks >= Get(store[b], "link", slug).clicks

\* C32 (as claimed): while a link record is stored, no step of an update
\* or of a redirect, however they interleave, lowers its clicks.
C32_ClicksNeverDecrease == [][ClicksKept]_vars

-----------------------------------------------------------------------------
(* C33 *)

\* C33 (as claimed): once the requests in flight have finished, a slug that
\* a delete removed, and that no create has stored since, has no value in
\* the store, on the local backend and on the remote one.
C33_DeletedStaysDeleted ==
  (\A p \in Slots : inflight[p].pc = "idle") =>
    \A slug \in history.removed :
      ~Has(Registry, "link", slug) /\ ~Has(Resolved, "link", slug)

-----------------------------------------------------------------------------
(* C34 *)

\* C34 (as claimed): for every session cookie, in every reachable store and
\* at every time, the status probe, the verify probe and the authorization
\* check of /api/links give the same verdict.
C34_ValidatorsAgree ==
  \A cookie \in Cookies :
    /\ statusIsAuthenticated(Registry, cookie, now) = verifyAuthenticated(Registry, cookie, now)
    /\ verifyAuthenticated(Registry, cookie, now) = isAuthorized(Registry, cookie, now)

-----------------------------------------------------------------------------
(* C35 *)

\* C35 (as claimed): a login that is rejected as rate-limited leaves the
\* identity's rate-limit record, and the rest of the store, as they were.
C35_RejectionChangesNothing ==
  \A h \in HeaderSets, pw \in Passwords :
    POSTlogin(Registry, h, pw, NowReads).err = "rate_limited" =>
      POSTlogin(Registry, h, pw, NowReads).s = Registry

-----------------------------------------------------------------------------
(* C36 *)

\* the failures the store counts for an identity
Attempts(s, ip) == IF Has(s, "ratelimit", ip) THEN Get(s, "ratelimit", ip).attempts ELSE 0

\* C36: a login that is refused because no password is set up or because
\* the request carries none is answered 400 and leaves the store as it was
\* (no failure counted, no session); a login that the rate limiter lets
\* through without a stored password or without a password is refused so;
\* and a login raises the identity's count, or changes its record without
\* being rate-limited or successful, only if its password was compared
\* with the stored hash and did not match.
C36_OnlyMismatchCounts ==
  \A h \in HeaderSets, pw \in Passwords :
    LET r == POSTlogin(Registry, h, pw, NowReads)
        ip == getClientIP(h)
    IN  /\ r.err \in {"not_setup", "password_required"} =>
             r.http = 400 /\ r.s = Registry /\ r.issued = 0
        /\ (r.err # "rate_limited" /\ (pw = "" \/ ~Has(Registry, "auth", "password"))) =>
             r.err \in {"not_setup", "password_required"}
        /\ (\/ Attempts(r.s, ip) > Attempts(Registry, ip)
            \/ (r.s.ratelimit # Registry.ratelimit /\ r.err # "rate_limited" /\ r.http # 200)) =>
             /\ pw # ""
             /\ Has(Registry, "auth", "password")
             /\ ~bcryptCompare(pw, Get(Registry, "auth", "password").passwordHash)

\* a login without a password was answered 400 while the identity had
\* failures on record, and the record still counts as many
C36_Witness ==
  /\ last.op = "login"
  /\ last.http = 400
  /\ last.err = "password_required"
  /\ last.req.pw = ""
  /\ last.failures >= 1
  /\ Attempts(Registry, last.req.ip) = last.failures

-----------------------------------------------------------------------------
(* C37 *)

\* identities of clients: the ones the headers of the model name and one more
Identities == { getClientIP(h) : h \in HeaderSets } \cup {"10.0.0.9"}

\* the store with the record of identity ip replaced: by none, or by a
\* record of five failures locked from time t
WithRecordOf(s, ip, t) ==
  { Del(s, "ratelimit", ip),
    Set(s, "ratelimit", ip,
        [attempts |-> MAX_LOGIN_ATTEMPTS, firstAttempt |-> t,
         lockedUntil |-> t + LOCKOUT_DURATION]) }

\* what a login answers and what it leaves as the record of identity ip
Outcome(r, ip) ==
  [http |-> r.http, err |-> r.err, issued |-> r.issued, remaining |-> r.remaining,
   lockedUntil |-> r.lockedUntil,
   record |-> IF Has(r.s, "ratelimit", ip) THEN <<Get(r.s, "ratelimit", ip)>> ELSE << >>]

\* C37: the identity of a login is the first entry of x-forwarded-for,
\* trimmed, else x-real-ip, else "unknown"; a login leaves the rate-limit
\* record of every other identity as it was, and its answer and its own
\* record are the same whatever record another identity has, a locked one
\* included.
C37_PerIdentity ==
  \A h \in HeaderSets, pw \in Passwords :
    LET ip == getClientIP(h)
        r == POSTlogin(Registry, h, pw, NowReads)
    IN  /\ (h.xff = << >> /\ h.realIp = "") => ip = "unknown"
        /\ (h.xff = << >> /\ h.realIp # "") => ip = h.realIp
        /\ h.xff # << >> => ip = Trim(h.xff[1])
        /\ \A other \in Identities \ {ip} :
             /\ Has(r.s, "ratelimit", other) = Has(Registry, "ratelimit", other)
             /\ Has(Registry, "ratelimit", other) =>
                  Get(r.s, "ratelimit", other) = Get(Registry, "ratelimit", other)
             /\ \A v \in WithRecordOf(Registry, other, now) :
                  Outcome(POSTlogin(v, h, pw, NowReads), ip) = Outcome(r, ip)

\* a login of one identity was let through to the password test while
\* another identity was locked
C37_Witness ==
  /\ last.op = "login"
  /\ last.http \in {200, 401}
  /\ \E other \in Identities \ {last.req.ip} : Locked(Registry, other, now)

-----------------------------------------------------------------------------
(* C38 *)

\* C38 (as claimed): every rate-limit record in the store counts between 1
\* and MAX_LOGIN_ATTEMPTS failures, and has a lockedUntil exactly when it
\* counts MAX_LOGIN_ATTEMPTS.
C38_RecordShape ==
  \A ip \in DOMAIN Registry.ratelimit :
    LET data == Get(Registry, "ratelimit", ip)
    IN  /\ data.attempts \in 1..MAX_LOGIN_ATTEMPTS
        /\ data.lockedUntil # 0 <=> data.attempts = MAX_LOGIN_ATTEMPTS

-----------------------------------------------------------------------------
(* C39 *)

\* C39: in every reachable state, a backend that holds a session record or
\* a link record holds the AuthRecord: no session is issued and no link is
\* created before a setup has stored the password hash.
C39_SetupComesFirst ==
  \A b \in Backends :
    (DOMAIN store[b].session # {} \/ DOMAIN store[b].link # {})
      => Has(store[b], "auth", "password")

\* a login has just opened a second session and the registry holds a link
C39_Witness ==
  /\ last.op = "login" /\ last.http = 200
  /\ Cardinality(DOMAIN Registry.session) = 2
  /\ DOMAIN Registry.link # {}
  /\ Has(Registry, "auth", "password")

====
